---- MODULE Spec2Model ----
(***************************************************************************)
(* Sacred Timeline: the activity narrator, SacredTimeline.narrate of       *)
(* src/src/git-wrapper.ts, run against a repository whose history grows by *)
(* captures.  narrate is modelled statement by statement: the log call,    *)
(* one loop iteration per listed commit (weekday tally, then the           *)
(* changed-file lookup, which may throw), and the final aggregation.       *)
(* The module also holds the `narrate` command of src/src/cli.ts and the   *)
(* timeline operations of the wrapper (start, capture, experiment, keep,   *)
(* discard, restore) over a commit graph with branches, its cloud          *)
(* operations (connect, backup, getWorktrees, backupAll) over the          *)
(* repository's worktrees, its status readers (changes, getStatusSummary), *)
(* and of the editor extension of src/src/extension.ts and                 *)
(* src/src/sidebar-provider.ts the command registration, the sidebar's     *)
(* message handler and the capture command.                                *)
(***************************************************************************)
EXTENDS Integers, Sequences, FiniteSets, TLC

VARIABLES
    repo,         \* the commits of the repository, most recent first (git log order)
    today,        \* the current local calendar date, as a day number
    pc,           \* narrate's position: "idle", "loop" or "done"
    days,         \* narrate's parameter
    logOutcome,   \* what this.git.log did in this call: "none", "ok" or "fail"
    commits,      \* log.all
    idx,          \* index in commits of the commit the for-loop is at
    dayMap,       \* weekday name -> count (an object, own entries in insertion order)
    fileChanges,  \* path -> count (an object, own entries in insertion order)
    lookups,      \* per processed commit, what this.git.diff did: "ok" or "fail"
    result,       \* the object narrate returned
    sinceStr,     \* the date narrate passes to the log call as '--since', until the loop runs
    invoked,      \* the capabilities of this.git the running narrate call has invoked
    prev,         \* the inputs and the result of the narrate call before this one
    cliPc,        \* the command line: "shell", "validated", "exit0" or "exit1"
    param,        \* the command line's argument text, as a sequence of characters
    cliDays,      \* `days` of the narrate command
    graph,        \* per commit hash, the hashes reachable from it (itself included)
    branches,     \* local branch name -> hash of its tip
    current,      \* status.current: the branch HEAD is on, "HEAD" when detached
    detachedAt,   \* the hash a detached HEAD is at, 0 otherwise
    dirty,        \* status.files is not empty
    started,      \* the main timeline as it was when the experiment under way began
    op,           \* the last operation of the wrapper and what it returned
    remotes,      \* the names of the remotes the repository is connected to
    worktrees,    \* the worktrees of the repository, as `git worktree list` lists them
    cloudOp,      \* the last backup operation and what it returned
    statusFiles,  \* status.files of the workspace: path -> its two status letters
    editorOp,     \* the last capture command of the editor and what it showed
    registered,   \* the command identifiers the extension has registered
    inbox,        \* the messages the sidebar webview has posted, oldest first
    dispatched    \* what the sidebar did with the last message it received

repoVars == <<repo, today>>
callVars == <<pc, days, logOutcome, commits, idx, dayMap, fileChanges, lookups, result,
              sinceStr, invoked>>
cliVars == <<cliPc, param, cliDays>>
gitVars == <<graph, branches, current, detachedAt, dirty, started, op>>
cloudVars == <<remotes, worktrees, cloudOp>>
statusVars == <<statusFiles, editorOp>>
sidebarVars == <<registered, inbox, dispatched>>
editorVars == <<cloudVars, statusVars, sidebarVars>>
restVars == <<prev, cliVars, gitVars, editorVars>>
vars == <<repo, today, pc, days, logOutcome, commits, idx, dayMap, fileChanges, lookups,
          result, sinceStr, invoked, prev, cliPc, param, cliDays, graph, branches,
          current, detachedAt, dirty, started, op, remotes, worktrees, cloudOp, statusFiles,
          editorOp, registered, inbox, dispatched>>

----------------------------------------------------------------------------
(* Bounds and input sets *)

\* The most commits the repository holds.
MaxCommits == 4

\* The calendar dates on which something happens: a Monday, the Tuesday after
\* it, and the Monday one week later (same weekday, another date).
DateSet == {1, 2, 8}

\* The difference between the UTC calendar date and the local calendar date
\* of one instant, which depends on the time zone and the time of day.
UtcShift == {-1, 0, 1}

\* Window lengths narrate is called with.
DaysInputs == {4, 5, 7}

\* Commit messages.
PlainMessages == {"wip"}

\* Commit messages with and without a completion keyword, in several cases.
MilestoneMessages == {"Finnish dinner", "Finish chapter 3", "ALL DONE", "incomplete notes"}

\* The files one commit changes, in the order `git diff --name-only` lists them.
BigDiff == <<".DS_Store", "src/a.ts", "b.md", "c.md", "d.md", "e.md", "g.md">>
SmallDiff == <<".DS_Store", ".gitignore", "assets/.DS_Store", "f.md">>
ProtoDiff == <<"constructor", "b.md", "c.md">>
PlainDiff == <<"b.md">>
FileLists == {BigDiff, SmallDiff}
ProtoLists == {ProtoDiff, PlainDiff}

\* The longest argument text given to the narrate command.
MaxArgLen == 3

\* The characters of an argument text, and the texts: `sacred narrate` alone
\* gives the empty text.
ArgChars == {"0", "3", "5", "7", "x", ".", "-", " "}
Args == UNION {[1..n -> ArgChars] : n \in 0..MaxArgLen}

\* A capture is made while the commit graph holds fewer commits than this.
MaxHashes == 3

\* The branch `git init` starts on (init.defaultBranch).
DefaultBranches == {"main", "master"}

\* Names given to experiments, and messages given to captures.
ExperimentNames == {"Try 2"}
CaptureMessages == {"Finish chapter 3"}

----------------------------------------------------------------------------
(* JavaScript values and strings *)

\* null and a present value, for busiestDay and for result.
Null == << >>
Some(x) == <<x>>

\* A JavaScript number or string.
Num(n) == [type |-> "number", num |-> n, str |-> ""]
Str(s) == [type |-> "string", num |-> 0, str |-> s]

Min(a, b) == IF a < b THEN a ELSE b

\* String.prototype.startsWith and String.prototype.includes.
StartsWith(s, p) == Len(s) >= Len(p) /\ SubSeq(s, 1, Len(p)) = p
Includes(s, sub) ==
    \E i \in 1..(Len(s) - Len(sub) + 1) : SubSeq(s, i, i + Len(sub) - 1) = sub

\* The position of the last '/' of s, 0 when it has none.
LastSlash(s) ==
    LET at == {i \in 1..Len(s) : SubSeq(s, i, i) = "/"}
    IN  IF at = {} THEN 0 ELSE CHOOSE i \in at : \A j \in at : j <= i

\* file.split('/').pop() || file
Basename(file) ==
    LET last == SubSeq(file, LastSlash(file) + 1, Len(file))
    IN  IF last = "" THEN file ELSE last

\* String.prototype.toLowerCase, on the ASCII letters.
Upper == "ABCDEFGHIJKLMNOPQRSTUVWXYZ"
LowerLetters == "abcdefghijklmnopqrstuvwxyz"
LowerChar(c) ==
    LET at == {i \in 1..Len(Upper) : SubSeq(Upper, i, i) = c}
    IN  IF at = {} THEN c
        ELSE LET i == CHOOSE k \in at : TRUE IN SubSeq(LowerLetters, i, i)
RECURSIVE toLowerCase(_)
toLowerCase(s) ==
    IF s = "" THEN ""
    ELSE LowerChar(SubSeq(s, 1, 1)) \o toLowerCase(SubSeq(s, 2, Len(s)))

\* A JavaScript number that may be NaN.
NaN == [nan |-> TRUE, num |-> 0]
Number(n) == [nan |-> FALSE, num |-> n]
isNaN(x) == x.nan

Digits == <<"0", "1", "2", "3", "4", "5", "6", "7", "8", "9">>
IsDigit(c) == \E i \in 1..Len(Digits) : Digits[i] = c
DigitValue(c) == (CHOOSE i \in 1..Len(Digits) : Digits[i] = c) - 1

\* The text without its leading white space.
RECURSIVE TrimStart(_)
TrimStart(chars) ==
    IF chars # << >> /\ Head(chars) = " " THEN TrimStart(Tail(chars)) ELSE chars

\* The longest run of digits the text starts with.
RECURSIVE DigitPrefix(_)
DigitPrefix(chars) ==
    IF chars # << >> /\ IsDigit(Head(chars))
    THEN <<Head(chars)>> \o DigitPrefix(Tail(chars))
    ELSE << >>

\* The number a run of digits writes in base 10.
RECURSIVE DecimalValue(_)
DecimalValue(digits) ==
    IF digits = << >> THEN 0
    ELSE 10 * DecimalValue(SubSeq(digits, 1, Len(digits) - 1))
         + DigitValue(digits[Len(digits)])

\* parseInt(text, 10): leading white space is skipped, a sign is read, then
\* the longest run of digits; what follows the digits is ignored; NaN when
\* there is no digit.
parseInt(chars) ==
    LET body == TrimStart(chars)
        neg == body # << >> /\ Head(body) = "-"
        rest == IF neg THEN Tail(body) ELSE body
        digits == DigitPrefix(rest)
    IN  IF digits = << >> THEN NaN
        ELSE Number(IF neg THEN 0 - DecimalValue(digits) ELSE DecimalValue(digits))

----------------------------------------------------------------------------
(* Plain objects used as maps: `const m = {}` *)

\* Names every object literal inherits from Object.prototype; reading one of
\* them from `{}` gives the inherited function, not undefined.
ObjectPrototypeKeys ==
    {"constructor", "toString", "valueOf", "hasOwnProperty", "isPrototypeOf",
     "propertyIsEnumerable", "toLocaleString"}

\* String(f) of the inherited function named key.
InheritedText(key) ==
    IF key = "constructor" THEN "function Object() { [native code] }"
    ELSE "function " \o key \o "() { [native code] }"

HasOwn(obj, key) == \E i \in 1..Len(obj) : obj[i].key = key
Own(obj, key) == obj[CHOOSE i \in 1..Len(obj) : obj[i].key = key].value

\* (obj[key] || 0) + 1: an own count n gives n + 1; an own string or an
\* inherited function is truthy and `+ 1` appends "1" to its text;
\* undefined gives 0 + 1.
Incremented(obj, key) ==
    IF HasOwn(obj, key)
    THEN LET v == Own(obj, key)
         IN  IF v.type = "number" THEN Num(v.num + 1) ELSE Str(v.str \o "1")
    ELSE IF key \in ObjectPrototypeKeys THEN Str(InheritedText(key) \o "1")
    ELSE Num(1)

\* obj[key] = value: an own property keeps its place, a new one is added last
\* (the keys here are weekday names and paths; none is an array index).
Assign(obj, key, value) ==
    IF HasOwn(obj, key)
    THEN [i \in 1..Len(obj) |->
            IF obj[i].key = key THEN [key |-> key, value |-> value] ELSE obj[i]]
    ELSE Append(obj, [key |-> key, value |-> value])

\* obj[key] = (obj[key] || 0) + 1
Bump(obj, key) == Assign(obj, key, Incremented(obj, key))

\* files.forEach(file => { fileChanges[file] = (fileChanges[file] || 0) + 1; })
RECURSIVE BumpAll(_, _)
BumpAll(obj, files) ==
    IF files = << >> THEN obj
    ELSE BumpAll(Bump(obj, Head(files)), Tail(files))

----------------------------------------------------------------------------
(* The repository and the clock *)

WeekdayNames ==
    <<"Sunday", "Monday", "Tuesday", "Wednesday", "Thursday", "Friday", "Saturday">>

\* new Date(commit.date).toLocaleDateString('en-US', { weekday: 'long' });
\* day number 1 is a Monday.
Weekday(date) == WeekdayNames[(date % 7) + 1]

\* A capture adds a commit on top of the history, dated today.  The first
\* commit of a repository has no parent.  `changed` is the files the commit
\* changed: what a diff against the parent lists, when there is a parent.
CommitAdded(messages, lists) ==
    /\ pc = "idle"
    /\ Len(repo) < MaxCommits
    /\ \E m \in messages, fl \in lists :
          repo' = <<[hash    |-> Len(repo) + 1,
                     date    |-> today,
                     message |-> m,
                     root    |-> (repo = << >>),
                     changed |-> fl]>> \o repo
    /\ UNCHANGED <<today, callVars, restVars>>

\* Time passes between two commands.
DayPasses ==
    /\ pc = "idle"
    /\ \E d \in DateSet : d > today /\ today' = d
    /\ UNCHANGED <<repo, callVars, restVars>>

\* this.git.log({ '--since': cutoff }): the commits dated cutoff or later,
\* most recent first.
GitLog(cutoff) == SelectSeq(repo, LAMBDA c : c.date >= cutoff)

----------------------------------------------------------------------------
(* narrate: the aggregation *)

\* The top-N cut of topFiles.
TopN == 5

\* The number of milestones the summary quotes.
MilestoneQuota == 2

ZeroStats ==
    [totalCaptures |-> 0,
     activeDays    |-> 0,
     topFiles      |-> << >>,
     experiments   |-> [started |-> 0, kept |-> 0, discarded |-> 0],
     busiestDay    |-> Null]

\* EmptyResult with the default window written into the sentence.
EmptyResultDefaultWindow(d) ==
    [success |-> TRUE,
     summary |-> <<"No captures in the last ", "7", " days. Time to get back to work!">>,
     stats   |-> ZeroStats]

\* The return of the empty window.
EmptyResult(d) ==
    [success |-> TRUE,
     summary |-> <<"No captures in the last ", ToString(d),
                   " days. Time to get back to work!">>,
     stats   |-> ZeroStats]

\* FailedResult that reports the failure as a success.
FailedResultAsSuccess(message) ==
    [success |-> TRUE,
     summary |-> <<"Could not narrate: ", message>>,
     stats   |-> ZeroStats]

\* The return of the outer catch.
FailedResult(message) ==
    [success |-> FALSE,
     summary |-> <<"Could not narrate: ", message>>,
     stats   |-> ZeroStats]

\* FindBusiest that lets a later weekday with an equal count take over.
RECURSIVE FindBusiestLastWins(_, _)
FindBusiestLastWins(entries, busiestDay) ==
    IF entries = << >> THEN busiestDay
    ELSE LET e == Head(entries)
         IN  FindBusiestLastWins(Tail(entries),
                 IF busiestDay = Null \/ e.value.num >= busiestDay[1].captures
                 THEN Some([day |-> e.key, captures |-> e.value.num])
                 ELSE busiestDay)

\* FindBusiest with the comparison turned round.
RECURSIVE FindLeastBusy(_, _)
FindLeastBusy(entries, busiestDay) ==
    IF entries = << >> THEN busiestDay
    ELSE LET e == Head(entries)
         IN  FindLeastBusy(Tail(entries),
                 IF busiestDay = Null \/ e.value.num < busiestDay[1].captures
                 THEN Some([day |-> e.key, captures |-> e.value.num])
                 ELSE busiestDay)

\* for (const [day, count] of Object.entries(dayMap))
\*     if (!busiestDay || count > busiestDay.captures) busiestDay = { day, captures: count };
RECURSIVE FindBusiest(_, _)
FindBusiest(entries, busiestDay) ==
    IF entries = << >> THEN busiestDay
    ELSE LET e == Head(entries)
         IN  FindBusiest(Tail(entries),
                 IF busiestDay = Null \/ e.value.num > busiestDay[1].captures
                 THEN Some([day |-> e.key, captures |-> e.value.num])
                 ELSE busiestDay)

\* Eligible that compares the whole path with the metadata file's name.
EligibleExactName(file) == file # ".DS_Store" /\ ~StartsWith(file, ".")

\* .filter(([file]) => !file.includes('.DS_Store') && !file.startsWith('.'))
Eligible(file) == ~Includes(file, ".DS_Store") /\ ~StartsWith(file, ".")

\* (a, b) => b[1] - a[1], as Array.prototype.sort reads it: a difference that
\* is NaN (an operand that is not numeric) counts as +0.
SortCompare(a, b) ==
    IF a.value.type = "number" /\ b.value.type = "number"
    THEN b.value.num - a.value.num
    ELSE 0

Sign(n) == IF n < 0 THEN -1 ELSE IF n > 0 THEN 1 ELSE 0

\* Whether the comparator is a consistent comparison function for the
\* entries (ECMAScript, Array.prototype.sort).
Consistent(entries) ==
    \A i, j, k \in 1..Len(entries) :
        LET a == entries[i]
            b == entries[j]
            c == entries[k]
        IN  /\ (SortCompare(a, b) = 0 /\ SortCompare(b, c) = 0) => SortCompare(a, c) = 0
            /\ (SortCompare(a, b) < 0 /\ SortCompare(b, c) < 0) => SortCompare(a, c) < 0
            /\ (SortCompare(a, b) > 0 /\ SortCompare(b, c) > 0) => SortCompare(a, c) > 0
            /\ SortCompare(a, b) = 0 => Sign(SortCompare(a, c)) = Sign(SortCompare(b, c))

\* x placed behind every element that does not sort after it.
RECURSIVE InsertSorted(_, _)
InsertSorted(sorted, x) ==
    IF sorted = << >> THEN <<x>>
    ELSE IF SortCompare(Head(sorted), x) <= 0
         THEN <<Head(sorted)>> \o InsertSorted(Tail(sorted), x)
         ELSE <<x>> \o sorted

\* The stable sort of the entries.
RECURSIVE StableSort(_)
StableSort(entries) ==
    IF entries = << >> THEN << >>
    ELSE InsertSorted(StableSort(SubSeq(entries, 1, Len(entries) - 1)),
                      entries[Len(entries)])

Reorderings(entries) ==
    LET n == Len(entries)
    IN  {[i \in 1..n |-> entries[p[i]]] :
            p \in {q \in [1..n -> 1..n] : \A i, j \in 1..n : q[i] = q[j] => i = j}}

\* What .sort((a, b) => b[1] - a[1]) may leave: the stable order under a
\* consistent comparator, an implementation-defined order otherwise.
SortOutcomes(entries) ==
    IF Consistent(entries) THEN {StableSort(entries)} ELSE Reorderings(entries)

\* .slice(0, 5)
Slice(sorted) == SubSeq(sorted, 1, Min(TopN, Len(sorted)))

\* .map(([file, changes]) => ({ file: file.split('/').pop() || file, path: file, changes }))
Shown(sliced) ==
    [i \in 1..Len(sliced) |->
        [file    |-> Basename(sliced[i].key),
         path    |-> sliced[i].key,
         changes |-> sliced[i].value]]

\* The values topFiles may take.
TopFilesOutcomes(fc) ==
    {Shown(Slice(sorted)) : sorted \in SortOutcomes(SelectSeq(fc, LAMBDA e : Eligible(e.key)))}

\* UniqueDates that counts a date whenever it differs from the date of the
\* commit listed before.
UniqueDatesByRuns(cs) ==
    {cs[i].hash : i \in {k \in 1..Len(cs) : k = 1 \/ cs[k].date # cs[k - 1].date}}

\* UniqueDates that keys the set by the weekday name.
UniqueWeekdays(cs) == {Weekday(cs[i].date) : i \in 1..Len(cs)}

\* new Set(commits.map(c => new Date(c.date).toDateString()))
UniqueDates(cs) == {cs[i].date : i \in 1..Len(cs)}

\* FewActiveDays with the half taken by integer division.
FewActiveDaysIntegerHalf(activeDays, d) == activeDays < d \div 2

\* activeDays < days / 2, the division being exact: a < d / 2 iff 2a < d.
FewActiveDays(activeDays, d) == 2 * activeDays < d

\* The text of a count in a template literal.
Show(v) == IF v.type = "number" THEN ToString(v.num) ELSE v.str

\* IsMilestone that compares the message as written.
IsMilestoneCaseSensitive(c) ==
    \/ Includes(c.message, "finish")
    \/ Includes(c.message, "complete")
    \/ Includes(c.message, "done")

IsMilestone(c) ==
    \/ Includes(toLowerCase(c.message), "finish")
    \/ Includes(toLowerCase(c.message), "complete")
    \/ Includes(toLowerCase(c.message), "done")

RecentMilestones(cs) ==
    LET hits == SelectSeq(cs, IsMilestone)
    IN  SubSeq(hits, 1, Min(MilestoneQuota, Len(hits)))

\* The summary, as the pieces the code concatenates.
BaseSentence(d, n) ==
    <<"In the last ", ToString(d), " days, you made ", ToString(n),
      IF n # 1 THEN " captures" ELSE " capture", ".">>

BusiestSentence(busiestDay) ==
    IF busiestDay # Null /\ busiestDay[1].captures > 1
    THEN <<" Your most productive day was ", busiestDay[1].day, " with ",
           ToString(busiestDay[1].captures), " captures.">>
    ELSE << >>

TopFileSentence(topFiles) ==
    IF Len(topFiles) > 0
    THEN <<" You worked most on \"", topFiles[1].file, "\" (", Show(topFiles[1].changes),
           IF topFiles[1].changes # Num(1) THEN " changes" ELSE " change", ").">>
    ELSE << >>

EncouragementSentence(activeDays, d) ==
    IF FewActiveDays(activeDays, d)
    THEN <<" You were active on ", ToString(activeDays),
           IF activeDays # 1 THEN " days" ELSE " day",
           " - consider more consistent capturing.">>
    ELSE << >>

MilestoneSentence(recent) ==
    IF Len(recent) > 0
    THEN <<" Recent milestones: \"", recent[1].message, "\"">>
         \o (IF Len(recent) > 1 THEN <<" and \"", recent[2].message, "\"">> ELSE << >>)
         \o <<".">>
    ELSE << >>

\* Narrated with the encouragement appended before the top-file sentence.
NarratedEncouragementEarly(d, cs, dm, topFiles) ==
    LET busiestDay == FindBusiest(dm, Null)
        activeDays == Cardinality(UniqueDates(cs))
    IN  [success |-> TRUE,
         summary |-> BaseSentence(d, Len(cs))
                     \o BusiestSentence(busiestDay)
                     \o EncouragementSentence(activeDays, d)
                     \o TopFileSentence(topFiles)
                     \o MilestoneSentence(RecentMilestones(cs)),
         stats   |-> [totalCaptures |-> Len(cs),
                      activeDays    |-> activeDays,
                      topFiles      |-> topFiles,
                      experiments   |-> [started |-> 0, kept |-> 0, discarded |-> 0],
                      busiestDay    |-> busiestDay]]

\* The return of a window with commits, for one outcome of the sort.
Narrated(d, cs, dm, topFiles) ==
    LET busiestDay == FindBusiest(dm, Null)
        activeDays == Cardinality(UniqueDates(cs))
    IN  [success |-> TRUE,
         summary |-> BaseSentence(d, Len(cs))
                     \o BusiestSentence(busiestDay)
                     \o TopFileSentence(topFiles)
                     \o EncouragementSentence(activeDays, d)
                     \o MilestoneSentence(RecentMilestones(cs)),
         stats   |-> [totalCaptures |-> Len(cs),
                      activeDays    |-> activeDays,
                      topFiles      |-> topFiles,
                      experiments   |-> [started |-> 0, kept |-> 0, discarded |-> 0],
                      busiestDay    |-> busiestDay]]

----------------------------------------------------------------------------
(* narrate: the steps *)

\* NewDayMap when the tally is kept from one call to the next.
KeptDayMap == dayMap

\* const dayMap: Record<string, number> = {} and
\* const fileChanges: Record<string, number> = {}: a new object per call.
NewDayMap == << >>
NewFileChanges == << >>

\* The locals of a call that has not reached them yet.
NoLocals ==
    /\ idx' = 0
    /\ dayMap' = << >>
    /\ fileChanges' = << >>
    /\ lookups' = << >>

\* const since = new Date(); since.setDate(since.getDate() - days);
\* since.toISOString().split('T')[0]: the UTC calendar date of the instant
\* `d` local days before now.
SinceStr(d, shift) == (today - d) + shift

\* narrate(days) up to `commits.length === 0`: the log call lists no commit.
NarrateEmptyWindow(daysSet) ==
    /\ pc = "idle"
    /\ \E d \in daysSet, shift \in UtcShift :
          /\ GitLog(SinceStr(d, shift)) = << >>
          /\ days' = d
          /\ sinceStr' = Some(SinceStr(d, shift))
          /\ commits' = << >>
          /\ result' = Some(EmptyResult(d))
    /\ invoked' = {"log"}
    /\ logOutcome' = "ok"
    /\ pc' = "done"
    /\ NoLocals
    /\ UNCHANGED <<repoVars, restVars>>

\* narrate(days) up to the for-loop: the log call lists commits.
NarrateListing(daysSet) ==
    /\ pc = "idle"
    /\ \E d \in daysSet, shift \in UtcShift :
          /\ GitLog(SinceStr(d, shift)) # << >>
          /\ days' = d
          /\ sinceStr' = Some(SinceStr(d, shift))
          /\ commits' = GitLog(SinceStr(d, shift))
    /\ invoked' = {"log"}
    /\ logOutcome' = "ok"
    /\ pc' = "loop"
    /\ idx' = 1
    /\ dayMap' = NewDayMap
    /\ fileChanges' = NewFileChanges
    /\ lookups' = << >>
    /\ result' = Null
    /\ UNCHANGED <<repoVars, restVars>>

\* narrate(days) up to the for-loop, the log call listing the commits of the
\* window in an order of its own.
NarrateListingAnyOrder(daysSet) ==
    /\ pc = "idle"
    /\ \E d \in daysSet, shift \in UtcShift :
          /\ GitLog(SinceStr(d, shift)) # << >>
          /\ days' = d
          /\ sinceStr' = Some(SinceStr(d, shift))
          /\ commits' \in Reorderings(GitLog(SinceStr(d, shift)))
    /\ invoked' = {"log"}
    /\ logOutcome' = "ok"
    /\ pc' = "loop"
    /\ idx' = 1
    /\ dayMap' = NewDayMap
    /\ fileChanges' = NewFileChanges
    /\ lookups' = << >>
    /\ result' = Null
    /\ UNCHANGED <<repoVars, restVars>>

\* narrate(days) when the log call throws: the outer catch returns.
NarrateLogFails(daysSet) ==
    /\ pc = "idle"
    /\ \E d \in daysSet, shift \in UtcShift :
          /\ days' = d
          /\ sinceStr' = Some(SinceStr(d, shift))
    /\ invoked' = {"log"}
    /\ logOutcome' = "fail"
    /\ commits' = << >>
    /\ result' = Some(FailedResult("git log failed"))
    /\ pc' = "done"
    /\ NoLocals
    /\ UNCHANGED <<repoVars, restVars>>

\* LoopDiffReturns that reads the changed files by checking the commit out.
LoopDiffChecksOut ==
    /\ pc = "loop"
    /\ idx <= Len(commits)
    /\ ~commits[idx].root
    /\ dayMap' = Bump(dayMap, Weekday(commits[idx].date))
    /\ fileChanges' = BumpAll(fileChanges, commits[idx].changed)
    /\ lookups' = Append(lookups, "ok")
    /\ idx' = idx + 1
    /\ invoked' = invoked \cup {"checkout", "diff"}
    /\ sinceStr' = Null
    /\ repo' = SubSeq(repo, Len(repo) - commits[idx].hash + 1, Len(repo))
    /\ UNCHANGED <<today, pc, days, logOutcome, commits, result, restVars>>

\* One iteration of the for-loop whose diff call returns: the weekday is
\* counted, then every listed file.  Only a commit with a parent has a diff.
LoopDiffReturns ==
    /\ pc = "loop"
    /\ idx <= Len(commits)
    /\ ~commits[idx].root
    /\ dayMap' = Bump(dayMap, Weekday(commits[idx].date))
    /\ fileChanges' = BumpAll(fileChanges, commits[idx].changed)
    /\ lookups' = Append(lookups, "ok")
    /\ idx' = idx + 1
    /\ invoked' = invoked \cup {"diff"}
    /\ sinceStr' = Null
    /\ UNCHANGED <<repoVars, pc, days, logOutcome, commits, result, restVars>>

\* LoopDiffThrows without the inner catch: the error reaches the outer catch.
LoopDiffRethrows ==
    /\ pc = "loop"
    /\ idx <= Len(commits)
    /\ dayMap' = Bump(dayMap, Weekday(commits[idx].date))
    /\ lookups' = Append(lookups, "fail")
    /\ result' = Some(FailedResult("git diff failed"))
    /\ pc' = "done"
    /\ invoked' = invoked \cup {"diff"}
    /\ sinceStr' = Null
    /\ UNCHANGED <<repoVars, days, logOutcome, commits, idx, fileChanges, restVars>>

\* One iteration of the for-loop whose diff call throws (always so for a
\* commit without parent, `<hash>^` naming nothing): the inner catch is
\* empty and the loop goes on.
LoopDiffThrows ==
    /\ pc = "loop"
    /\ idx <= Len(commits)
    /\ dayMap' = Bump(dayMap, Weekday(commits[idx].date))
    /\ lookups' = Append(lookups, "fail")
    /\ idx' = idx + 1
    /\ invoked' = invoked \cup {"diff"}
    /\ sinceStr' = Null
    /\ UNCHANGED <<repoVars, pc, days, logOutcome, commits, fileChanges, result, restVars>>

\* After the loop: busiestDay, topFiles, activeDays, the summary, the return.
NarrateReturns ==
    /\ pc = "loop"
    /\ idx > Len(commits)
    /\ \E topFiles \in TopFilesOutcomes(fileChanges) :
          result' = Some(Narrated(days, commits, dayMap, topFiles))
    /\ pc' = "done"
    /\ UNCHANGED <<repoVars, days, logOutcome, commits, idx, dayMap, fileChanges, lookups,
                   sinceStr, invoked, restVars>>

\* The caller has consumed the result; nothing of the call is kept.
ResultConsumed ==
    /\ pc = "done"
    /\ pc' = "idle"
    /\ days' = 0
    /\ logOutcome' = "none"
    /\ commits' = << >>
    /\ result' = Null
    /\ sinceStr' = Null
    /\ invoked' = {}
    /\ NoLocals
    /\ UNCHANGED <<repoVars, restVars>>

\* ResultConsumed by a caller that will call again: what the call was given
\* and what it returned is kept for comparison; the memory of its locals is
\* not cleared.
ResultRemembered ==
    /\ pc = "done"
    /\ prev' = Some([days       |-> days,
                     today      |-> today,
                     logOutcome |-> logOutcome,
                     commits    |-> commits,
                     lookups    |-> lookups,
                     result     |-> result[1]])
    /\ pc' = "idle"
    /\ days' = 0
    /\ logOutcome' = "none"
    /\ commits' = << >>
    /\ result' = Null
    /\ sinceStr' = Null
    /\ invoked' = {}
    /\ idx' = 0
    /\ lookups' = << >>
    /\ UNCHANGED <<repoVars, dayMap, fileChanges, cliVars, gitVars, editorVars>>

----------------------------------------------------------------------------
(* The narrate command of the command line *)

\* const days = param ? parseInt(param, 10) : 7
ParsedDays(text) == IF text # << >> THEN parseInt(text) ELSE Number(7)

\* `sacred narrate <text>` up to the call of narrate: the argument is read
\* and checked; a rejected one ends the process with status 1.
CliParses ==
    /\ cliPc = "shell"
    /\ pc = "idle"
    /\ \E text \in Args :
          /\ param' = text
          /\ IF isNaN(ParsedDays(text)) \/ ParsedDays(text).num < 1
             THEN cliPc' = "exit1" /\ cliDays' = 0
             ELSE cliPc' = "validated" /\ cliDays' = ParsedDays(text).num
    /\ UNCHANGED <<repoVars, callVars, prev, gitVars, editorVars>>

\* await sacred.narrate(days), in a repository without commits.
CliNarrates ==
    /\ cliPc = "validated"
    /\ NarrateEmptyWindow({cliDays})

\* await sacred.narrate(days) when the log call throws.
CliNarrateFails ==
    /\ cliPc = "validated"
    /\ NarrateLogFails({cliDays})

\* The story is printed and the process ends with status 0.
CliReports ==
    /\ cliPc = "validated"
    /\ pc = "done"
    /\ cliPc' = "exit0"
    /\ pc' = "idle"
    /\ days' = 0
    /\ logOutcome' = "none"
    /\ commits' = << >>
    /\ result' = Null
    /\ sinceStr' = Null
    /\ invoked' = {}
    /\ NoLocals
    /\ UNCHANGED <<repoVars, prev, param, cliDays, gitVars, editorVars>>

\* The command is typed again.
CliExits ==
    /\ cliPc \in {"exit0", "exit1"}
    /\ cliPc' = "shell"
    /\ param' = << >>
    /\ cliDays' = 0
    /\ UNCHANGED <<repoVars, callVars, prev, gitVars, editorVars>>

----------------------------------------------------------------------------
(* The timeline operations: start, capture, experiment, keep, discard, restore *)

\* name.toLowerCase().replace(/[^a-z0-9-]/g, '-')
SafeChars == "abcdefghijklmnopqrstuvwxyz0123456789-"
RECURSIVE ReplaceUnsafe(_)
ReplaceUnsafe(s) ==
    IF s = "" THEN ""
    ELSE (IF Includes(SafeChars, SubSeq(s, 1, 1)) THEN SubSeq(s, 1, 1) ELSE "-")
         \o ReplaceUnsafe(SubSeq(s, 2, Len(s)))
SafeName(name) == ReplaceUnsafe(toLowerCase(name))

\* Every name a local branch can have here; tip 0 says there is no such branch.
BranchUniverse == DefaultBranches \cup {SafeName(n) : n \in ExperimentNames}
Exists(b) == b \in BranchUniverse /\ branches[b] # 0

\* The commit HEAD is at, 0 on a branch that has no commit yet.
HeadHash ==
    IF current = "HEAD" THEN detachedAt
    ELSE IF Exists(current) THEN branches[current]
    ELSE 0

\* The commits reachable from commit h.
Reach(h) == IF h = 0 THEN {} ELSE graph[h].reach

\* getMainBranch()
MainBranch ==
    IF Exists("main") THEN "main"
    ELSE IF Exists("master") THEN "master"
    ELSE "main"

\* What an operation returns, with the argument it was given.
Result(name, arg, success, message) ==
    [name |-> name, arg |-> arg, success |-> success, message |-> message,
     hash |-> 0, experimentName |-> ""]

\* No operation of the wrapper has run yet.
NoOp == Result("none", "", FALSE, "")

gitState == <<graph, branches, current, detachedAt, dirty, started>>
nonGitVars == <<repoVars, callVars, prev, cliVars, editorVars>>

\* start(): git init; it leaves an existing repository as it is.
start ==
    /\ IF current = "" THEN current' \in DefaultBranches ELSE UNCHANGED current
    /\ op' = Result("start", "", TRUE, "Sacred Timeline initialized")
    /\ UNCHANGED <<graph, branches, detachedAt, dirty, started, nonGitVars>>

\* The user changes files of the working tree.
FilesEdited ==
    /\ current # ""
    /\ ~dirty
    /\ dirty' = TRUE
    /\ op' = Result("edit", "", TRUE, "")
    /\ UNCHANGED <<graph, branches, current, detachedAt, started, nonGitVars>>

\* capture that commits whether or not status lists a file.
captureAlways(message) ==
    /\ current # ""
    /\ Len(graph) < MaxHashes
    /\ graph' = Append(graph, [reach   |-> Reach(HeadHash) \cup {Len(graph) + 1},
                               message |-> message])
    /\ IF current = "HEAD"
       THEN detachedAt' = Len(graph) + 1 /\ UNCHANGED branches
       ELSE branches' = [branches EXCEPT ![current] = Len(graph) + 1]
            /\ UNCHANGED detachedAt
    /\ op' = [Result("capture", message, TRUE, "Captured") EXCEPT !.hash = Len(graph) + 1]
    /\ dirty' = FALSE
    /\ UNCHANGED <<current, started, nonGitVars>>

\* capture(message)
capture(message) ==
    /\ \/ /\ current = ""                    \* status throws: not a repository
          /\ op' = Result("capture", message, FALSE, "Capture failed")
          /\ UNCHANGED gitState
       \/ /\ current # ""                    \* status.files.length === 0
          /\ ~dirty
          /\ op' = Result("capture", message, FALSE, "Nothing to capture")
          /\ UNCHANGED gitState
       \/ /\ current # ""                    \* add or commit throws
          /\ dirty
          /\ op' = Result("capture", message, FALSE, "Capture failed")
          /\ UNCHANGED gitState
       \/ /\ current # ""                    \* add and commit return
          /\ dirty
          /\ Len(graph) < MaxHashes
          /\ graph' = Append(graph, [reach   |-> Reach(HeadHash) \cup {Len(graph) + 1},
                                     message |-> message])
          /\ IF current = "HEAD"
             THEN detachedAt' = Len(graph) + 1 /\ UNCHANGED branches
             ELSE branches' = [branches EXCEPT ![current] = Len(graph) + 1]
                  /\ UNCHANGED detachedAt
          /\ op' = [Result("capture", message, TRUE, "Captured")
                        EXCEPT !.hash = Len(graph) + 1]
          /\ dirty' = FALSE
          /\ UNCHANGED <<current, started>>
    /\ UNCHANGED nonGitVars

\* experiment(name)
experiment(name) ==
    /\ \/ /\ op' = Result("experiment", name, FALSE, "Could not start experiment")
          /\ UNCHANGED gitState         \* checkoutLocalBranch throws
       \/ /\ current # ""
          /\ ~Exists(SafeName(name))
          /\ SafeName(name) # current
          /\ branches' = IF HeadHash # 0
                         THEN [branches EXCEPT ![SafeName(name)] = HeadHash]
                         ELSE branches
          /\ current' = SafeName(name)
          /\ detachedAt' = 0
          /\ started' = Some([name   |-> SafeName(name),
                              main   |-> branches["main"],
                              master |-> branches["master"]])
          /\ op' = [Result("experiment", name, TRUE, "Experiment started")
                        EXCEPT !.experimentName = SafeName(name)]
          /\ UNCHANGED <<graph, dirty>>
    /\ UNCHANGED nonGitVars

\* keep that does not look at the branch it is called on.
keepUnguarded ==
    /\ current # ""
    /\ Exists(current)
    /\ Exists(MainBranch)
    /\ branches' = [branches EXCEPT ![current] = 0]
    /\ current' = MainBranch
    /\ op' = Result("keep", "", TRUE, "Experiment is now part of the main timeline")
    /\ UNCHANGED <<graph, detachedAt, dirty, started, nonGitVars>>

\* keep that deletes the experiment branch before it merges.
keepDeletesFirst ==
    /\ current \notin {"", "main", "master"}
    /\ Exists(current)
    /\ Exists(MainBranch)
    /\ branches' = [branches EXCEPT ![current] = 0]
    /\ current' = MainBranch
    /\ op' = Result("keep", "", FALSE, "Could not keep experiment")
    /\ UNCHANGED <<graph, detachedAt, dirty, started, nonGitVars>>

\* keep that deletes the experiment branch without merging it.
keepWithoutMerge ==
    /\ current \notin {"", "main", "master"}
    /\ Exists(MainBranch)
    /\ Exists(current)
    /\ branches' = [branches EXCEPT ![current] = 0]
    /\ current' = MainBranch
    /\ op' = Result("keep", "", TRUE, "Experiment is now part of the main timeline")
    /\ UNCHANGED <<graph, detachedAt, dirty, started, nonGitVars>>

\* keep()
keep ==
    /\ \/ /\ current = ""                    \* status throws: not a repository
          /\ op' = Result("keep", "", FALSE, "Could not keep experiment")
          /\ UNCHANGED gitState
       \/ /\ current \in {"main", "master"}
          /\ op' = Result("keep", "", FALSE, "Already on the main timeline")
          /\ UNCHANGED gitState
       \/ /\ current \notin {"", "main", "master"}     \* checkout(mainBranch) throws
          /\ op' = Result("keep", "", FALSE, "Could not keep experiment")
          /\ UNCHANGED gitState
       \/ /\ current \notin {"", "main", "master"}     \* merge or deleteLocalBranch throws
          /\ Exists(MainBranch)
          /\ current' = MainBranch
          /\ detachedAt' = 0
          /\ op' = Result("keep", "", FALSE, "Could not keep experiment")
          /\ UNCHANGED <<graph, branches, dirty, started>>
       \/ /\ current \notin {"", "main", "master"}     \* merge stops on a conflict
          /\ Exists(MainBranch)
          /\ Exists(current)
          /\ ~(Reach(branches[current]) \subseteq Reach(branches[MainBranch]))
          /\ ~(Reach(branches[MainBranch]) \subseteq Reach(branches[current]))
          /\ current' = MainBranch
          /\ dirty' = TRUE
          /\ op' = Result("keep", "", FALSE, "Keeping this experiment created tangles")
          /\ UNCHANGED <<graph, branches, detachedAt, started>>
       \/ /\ current \notin {"", "main", "master"}     \* checkout, merge, deleteLocalBranch
          /\ Exists(MainBranch)
          /\ Exists(current)
          /\ IF Reach(branches[current]) \subseteq Reach(branches[MainBranch])
             THEN /\ graph' = graph
                  /\ branches' = [branches EXCEPT ![current] = 0]
             ELSE IF Reach(branches[MainBranch]) \subseteq Reach(branches[current])
             THEN /\ graph' = graph
                  /\ branches' = [branches EXCEPT ![MainBranch] = branches[current],
                                                  ![current] = 0]
             ELSE /\ graph' = Append(graph,
                        [reach   |-> Reach(branches[MainBranch])
                                     \cup Reach(branches[current])
                                     \cup {Len(graph) + 1},
                         message |-> "Merge branch"])
                  /\ branches' = [branches EXCEPT ![MainBranch] = Len(graph) + 1,
                                                  ![current] = 0]
          /\ current' = MainBranch
          /\ op' = Result("keep", "", TRUE, "Experiment is now part of the main timeline")
          /\ UNCHANGED <<detachedAt, dirty, started>>
    /\ UNCHANGED nonGitVars

\* discard that merges the experiment before it deletes the branch.
discardMerges ==
    /\ current \notin {"", "main", "master"}
    /\ Exists(MainBranch)
    /\ Exists(current)
    /\ Reach(branches[MainBranch]) \subseteq Reach(branches[current])
    /\ branches' = [branches EXCEPT ![MainBranch] = branches[current], ![current] = 0]
    /\ current' = MainBranch
    /\ op' = Result("discard", "", TRUE, "Experiment discarded")
    /\ UNCHANGED <<graph, detachedAt, dirty, started, nonGitVars>>

\* discard()
discard ==
    /\ \/ /\ current = ""                    \* status throws: not a repository
          /\ op' = Result("discard", "", FALSE, "Could not discard experiment")
          /\ UNCHANGED gitState
       \/ /\ current \in {"main", "master"}
          /\ op' = Result("discard", "", FALSE, "On the main timeline")
          /\ UNCHANGED gitState
       \/ /\ current \notin {"", "main", "master"}     \* checkout(mainBranch) throws
          /\ op' = Result("discard", "", FALSE, "Could not discard experiment")
          /\ UNCHANGED gitState
       \/ /\ current \notin {"", "main", "master"}     \* deleteLocalBranch throws
          /\ Exists(MainBranch)
          /\ ~Exists(current)
          /\ current' = MainBranch
          /\ detachedAt' = 0
          /\ op' = Result("discard", "", FALSE, "Could not discard experiment")
          /\ UNCHANGED <<graph, branches, dirty, started>>
       \/ /\ current \notin {"", "main", "master"}     \* checkout, deleteLocalBranch
          /\ Exists(MainBranch)
          /\ Exists(current)
          /\ branches' = [branches EXCEPT ![current] = 0]
          /\ current' = MainBranch
          /\ op' = Result("discard", "", TRUE, "Experiment discarded")
          /\ UNCHANGED <<graph, detachedAt, dirty, started>>
    /\ UNCHANGED nonGitVars

\* restore that checks the commit out whatever status lists.
restoreUnchecked(hash) ==
    /\ current # ""
    /\ hash \in 1..Len(graph)
    /\ current' = "HEAD"
    /\ detachedAt' = hash
    /\ op' = [Result("restore", "", TRUE, "Restored to capture") EXCEPT !.hash = hash]
    /\ UNCHANGED <<graph, branches, dirty, started, nonGitVars>>

\* restore(hashOrRelative), given the hash of a capture.
restore(hash) ==
    /\ \/ /\ current = ""                    \* status throws: not a repository
          /\ op' = Result("restore", "", FALSE, "Could not restore")
          /\ UNCHANGED gitState
       \/ /\ current # ""                    \* status.files.length > 0
          /\ dirty
          /\ op' = Result("restore", "", FALSE, "You have unsaved changes")
          /\ UNCHANGED gitState
       \/ /\ current # ""                    \* checkout throws
          /\ ~dirty
          /\ op' = Result("restore", "", FALSE, "Could not restore")
          /\ UNCHANGED gitState
       \/ /\ current # ""                    \* checkout returns
          /\ ~dirty
          /\ hash \in 1..Len(graph)
          /\ current' = "HEAD"
          /\ detachedAt' = hash
          /\ op' = [Result("restore", "", TRUE, "Restored to capture") EXCEPT !.hash = hash]
          /\ UNCHANGED <<graph, branches, dirty, started>>
    /\ UNCHANGED nonGitVars

----------------------------------------------------------------------------
(* The cloud operations: connect, backup, getWorktrees, backupAll *)

\* The most worktrees the repository has, the workspace's own included.
MaxWorktrees == 2

\* The most captures a worktree's branch is ahead of its upstream.
MaxAhead == 1

\* The path and the branch of the i-th worktree; the first is the workspace.
WorktreePaths == <<"/w/book", "/w/book-try", "/w/book-alt">>
WorktreeBranches == <<"main", "try-2", "alt">>
RemoteUrls == {"https://github.com/a/book.git"}

\* What the i-th worktree is like when it is made: on its branch, or with a
\* detached HEAD (branch "").
NewWorktrees(i) ==
    {[path |-> WorktreePaths[i], branch |-> b, dirty |-> FALSE, ahead |-> 0] :
        b \in {WorktreeBranches[i], ""}}

\* What a backup operation returns, with the calls of git that write or read
\* the repository's state, in the order it made them.  pushed is "undefined"
\* where the returned object has no such member.
CloudResult(name, success, message, pushed, results, calls) ==
    [name |-> name, success |-> success, message |-> message, pushed |-> pushed,
     results |-> results, calls |-> calls]

nonCloudVars == <<repoVars, callVars, prev, cliVars, gitVars, statusVars, sidebarVars>>

\* No backup operation has just returned.
NoCloudOp == CloudResult("none", FALSE, "", "undefined", << >>, << >>)

\* The repository is made, or a worktree is added to it.
WorktreeAdded ==
    /\ Len(worktrees) < MaxWorktrees
    /\ \E w \in NewWorktrees(Len(worktrees) + 1) : worktrees' = Append(worktrees, w)
    /\ cloudOp' = NoCloudOp
    /\ UNCHANGED <<remotes, nonCloudVars>>

\* A file of the i-th worktree is edited.
WorktreeEdited(i) ==
    /\ ~worktrees[i].dirty
    /\ worktrees[i].ahead < MaxAhead
    /\ worktrees' = [worktrees EXCEPT ![i].dirty = TRUE]
    /\ cloudOp' = NoCloudOp
    /\ UNCHANGED <<remotes, nonCloudVars>>

\* status.ahead after one more commit: a detached HEAD has no upstream to be ahead of.
AheadAfterCommit(w) == IF w.branch # "" THEN w.ahead + 1 ELSE 0

\* The changes of the i-th worktree are captured there.
WorktreeCaptured(i) ==
    /\ worktrees[i].dirty
    /\ worktrees' = [worktrees EXCEPT ![i].dirty = FALSE,
                                      ![i].ahead = AheadAfterCommit(worktrees[i])]
    /\ cloudOp' = NoCloudOp
    /\ UNCHANGED <<remotes, nonCloudVars>>

\* connect(url): origin is removed if there and added with the url.
connect(url) ==
    /\ \/ /\ worktrees # << >>
          /\ remotes' = {r \in remotes : r.name # "origin"} \cup {[name |-> "origin", url |-> url]}
       \/ /\ worktrees = << >>        \* getRemotes throws: not a repository
          /\ UNCHANGED remotes
    /\ cloudOp' = NoCloudOp
    /\ UNCHANGED <<worktrees, nonCloudVars>>

\* backup(), and what backupAll() makes of it: the workspace is the first worktree.
\* The member pushed of the returned object: backupAll returns none.
Pushed(name, pushed) == IF name = "backup" THEN pushed ELSE "undefined"

\* backup() without its look at status.ahead.
BackupCallAnyway(name) ==
    \/ /\ worktrees = << >>            \* getRemotes throws: not a repository
       /\ cloudOp' = CloudResult(name, FALSE, "Backup failed", "undefined", << >>,
                                 <<"getRemotes">>)
       /\ UNCHANGED <<remotes, worktrees>>
    \/ /\ worktrees # << >>
       /\ remotes = {}
       /\ cloudOp' = CloudResult(name, FALSE, "Not connected to cloud yet", "undefined", << >>,
                                 <<"getRemotes">>)
       /\ UNCHANGED <<remotes, worktrees>>
    \/ /\ worktrees # << >>
       /\ remotes # {}
       /\ \E message \in {"Backup rejected", "Backup failed"} :    \* push throws
             cloudOp' = CloudResult(name, FALSE, message, "undefined", << >>,
                                    <<"getRemotes", "status", "push">>)
       /\ UNCHANGED <<remotes, worktrees>>
    \/ /\ worktrees # << >>
       /\ remotes # {}
       /\ cloudOp' = CloudResult(name, TRUE, "Backed up", Pushed(name, "true"), << >>,
                                 <<"getRemotes", "status", "push">>)
       /\ worktrees' = [worktrees EXCEPT ![1].ahead = 0]
       /\ UNCHANGED remotes

\* backup(), and what backupAll() makes of it.
BackupCall(name) ==
    \/ /\ worktrees = << >>            \* getRemotes throws: not a repository
       /\ cloudOp' = CloudResult(name, FALSE, "Backup failed", "undefined", << >>,
                                 <<"getRemotes">>)
       /\ UNCHANGED <<remotes, worktrees>>
    \/ /\ worktrees # << >>
       /\ remotes = {}
       /\ cloudOp' = CloudResult(name, FALSE, "Not connected to cloud yet", "undefined", << >>,
                                 <<"getRemotes">>)
       /\ UNCHANGED <<remotes, worktrees>>
    \/ /\ worktrees # << >>
       /\ remotes # {}
       /\ worktrees[1].ahead = 0
       /\ cloudOp' = CloudResult(name, TRUE, "Already backed up", Pushed(name, "false"), << >>,
                                 <<"getRemotes", "status">>)
       /\ UNCHANGED <<remotes, worktrees>>
    \/ /\ worktrees # << >>
       /\ remotes # {}
       /\ worktrees[1].ahead # 0
       /\ \E message \in {"Backup rejected", "Backup failed"} :    \* push throws
             cloudOp' = CloudResult(name, FALSE, message, "undefined", << >>,
                                    <<"getRemotes", "status", "push">>)
       /\ UNCHANGED <<remotes, worktrees>>
    \/ /\ worktrees # << >>
       /\ remotes # {}
       /\ worktrees[1].ahead # 0
       /\ cloudOp' = CloudResult(name, TRUE, "Backed up", Pushed(name, "true"), << >>,
                                 <<"getRemotes", "status", "push">>)
       /\ worktrees' = [worktrees EXCEPT ![1].ahead = 0]
       /\ UNCHANGED remotes

\* backup()
backup ==
    /\ BackupCall("backup")
    /\ UNCHANGED nonCloudVars

\* String.prototype.substring(n) and String.prototype.replace of a text by a text.
substring(s, n) == SubSeq(s, n + 1, Len(s))
IndexOf(s, sub) ==
    IF Includes(s, sub)
    THEN CHOOSE i \in 1..(Len(s) - Len(sub) + 1) :
            /\ SubSeq(s, i, i + Len(sub) - 1) = sub
            /\ \A j \in 1..(i - 1) : SubSeq(s, j, j + Len(sub) - 1) # sub
    ELSE 0
ReplaceFirst(s, sub, by) ==
    IF IndexOf(s, sub) = 0 THEN s
    ELSE SubSeq(s, 1, IndexOf(s, sub) - 1) \o by
         \o SubSeq(s, IndexOf(s, sub) + Len(sub), Len(s))

\* What `git worktree list --porcelain` prints, split into blocks and lines.
Porcelain ==
    [i \in 1..Len(worktrees) |->
        <<"worktree " \o worktrees[i].path,
          "HEAD 4b825dc",
          IF worktrees[i].branch = "" THEN "detached"
          ELSE "branch refs/heads/" \o worktrees[i].branch>>]

\* The inner loop of getWorktrees over the lines of one block.
RECURSIVE ParseBlock(_, _, _)
ParseBlock(lines, worktreePath, branch) ==
    IF lines = << >> THEN [path |-> worktreePath, branch |-> branch]
    ELSE IF StartsWith(Head(lines), "worktree ")
         THEN ParseBlock(Tail(lines), substring(Head(lines), 9), branch)
    ELSE IF StartsWith(Head(lines), "branch ")
         THEN ParseBlock(Tail(lines), worktreePath,
                         ReplaceFirst(substring(Head(lines), 7), "refs/heads/", ""))
    ELSE ParseBlock(Tail(lines), worktreePath, branch)

\* getWorktrees() on what git printed: a block without a branch line is left out.
RECURSIVE getWorktrees(_)
getWorktrees(blocks) ==
    IF blocks = << >> THEN << >>
    ELSE LET parsed == ParseBlock(Head(blocks), "", "")
         IN (IF parsed.path # "" /\ parsed.branch # ""
             THEN <<[path |-> parsed.path, branch |-> parsed.branch,
                     name |-> Basename(parsed.path)]>>
             ELSE << >>) \o getWorktrees(Tail(blocks))

\* The worktree simpleGit(path) opens.
At(path) == CHOOSE i \in 1..Len(worktrees) : worktrees[i].path = path

\* Which call of git throws while one worktree is processed: none, status,
\* commit, or push (with an error that says 'rejected' or another).
Fates == {"none", "status", "commit", "push", "rejected"}

\* The fates of a worktree in state w: a call can throw only if it is made.
FatesOf(w) ==
    {"none", "status"}
    \cup (IF w.dirty THEN {"commit"} ELSE {})
    \cup (IF (IF w.dirty THEN AheadAfterCommit(w) ELSE w.ahead) > 0
          THEN {"push", "rejected"} ELSE {})

Entry(wt, success, message, calls) ==
    [name |-> wt.name, branch |-> wt.branch, success |-> success, message |-> message,
     calls |-> calls]

\* One iteration of backupAll's loop on worktree wt in state w: its entry of
\* results and the worktree afterwards.
Processed(w, wt, fate) ==
    IF fate = "status"
    THEN [entry |-> Entry(wt, FALSE, "Failed", <<"status">>), after |-> w]
    ELSE IF w.dirty /\ fate = "commit"
    THEN [entry |-> Entry(wt, FALSE, "Failed", <<"status", "add", "commit">>), after |-> w]
    ELSE LET committed == IF w.dirty
                          THEN [w EXCEPT !.dirty = FALSE, !.ahead = AheadAfterCommit(w)]
                          ELSE w
             calls == IF w.dirty THEN <<"status", "add", "commit", "status">>
                      ELSE <<"status", "status">>
         IN IF committed.ahead > 0
            THEN IF fate = "rejected"
                 THEN [entry |-> Entry(wt, FALSE, "Needs update first", Append(calls, "push")),
                       after |-> committed]
                 ELSE IF fate = "push"
                 THEN [entry |-> Entry(wt, FALSE, "Failed", Append(calls, "push")),
                       after |-> committed]
                 ELSE [entry |-> Entry(wt, TRUE, "Pushed", Append(calls, "push")),
                       after |-> [committed EXCEPT !.ahead = 0]]
            ELSE [entry |-> Entry(wt, TRUE, "Already in sync", calls), after |-> committed]

\* The loop, were it to end at the first worktree that fails.
LoopResultsUntilFailure(listed, fates) ==
    LET all == [k \in 1..Len(listed) |->
                   Processed(worktrees[At(listed[k].path)], listed[k], fates[k]).entry]
        failed == {k \in 1..Len(listed) : ~all[k].success}
    IN  IF failed = {} THEN all
        ELSE SubSeq(all, 1, CHOOSE k \in failed : \A j \in failed : k <= j)

\* The results of the loop over the listed worktrees, fates[k] for the k-th.
LoopResults(listed, fates) ==
    [k \in 1..Len(listed) |-> Processed(worktrees[At(listed[k].path)], listed[k], fates[k]).entry]

\* The worktrees after the loop.
LoopWorktrees(listed, fates) ==
    [i \in 1..Len(worktrees) |->
        IF \E k \in 1..Len(listed) : listed[k].path = worktrees[i].path
        THEN LET k == CHOOSE k \in 1..Len(listed) : listed[k].path = worktrees[i].path
             IN Processed(worktrees[i], listed[k], fates[k]).after
        ELSE worktrees[i]]

failCount(results) == Cardinality({k \in 1..Len(results) : ~results[k].success})

\* backupAll()
backupAll ==
    /\ \/ /\ worktrees = << >>         \* getRemotes throws: not a repository
          /\ cloudOp' = CloudResult("backupAll", FALSE, "Backup failed", "undefined", << >>,
                                    <<"getRemotes">>)
          /\ UNCHANGED <<remotes, worktrees>>
       \/ /\ worktrees # << >>
          /\ remotes = {}
          /\ cloudOp' = CloudResult("backupAll", FALSE, "Not connected to cloud yet",
                                    "undefined", << >>, <<"getRemotes">>)
          /\ UNCHANGED <<remotes, worktrees>>
       \/ /\ worktrees # << >>         \* git.raw throws: getWorktrees returns []
          /\ remotes # {}
          /\ BackupCall("backupAll")
       \/ /\ worktrees # << >>
          /\ remotes # {}
          /\ getWorktrees(Porcelain) = << >>
          /\ BackupCall("backupAll")
       \/ /\ worktrees # << >>
          /\ remotes # {}
          /\ \E listed \in {getWorktrees(Porcelain)} :
                /\ listed # << >>
                /\ \E fates \in {f \in [1..Len(listed) -> Fates] :
                                   \A k \in 1..Len(listed) :
                                      f[k] \in FatesOf(worktrees[At(listed[k].path)])} :
                      \E results \in {LoopResults(listed, fates)} :
                         /\ cloudOp' = CloudResult("backupAll",
                                           failCount(results) = 0,
                                           IF failCount(results) = 0
                                           THEN "All backed up" ELSE "Some failed",
                                           "undefined", results,
                                           <<"getRemotes", "worktree list">>)
                         /\ worktrees' = LoopWorktrees(listed, fates)
          /\ UNCHANGED remotes
    /\ UNCHANGED nonCloudVars

----------------------------------------------------------------------------
(* The editor extension: activate and the sidebar's message handler *)

\* The most messages of the webview that wait for the handler.
MaxInbox == 2

\* data.type of the messages the webview posts: the cases of the handler's
\* switch and one type it has no case for.
MessageTypes ==
    {"capture", "latest", "backup", "changes", "timeline", "narrate", "experiment",
     "connect", "start", "refresh", "other"}

\* The command identifiers activate() registers.
Commands ==
    {"sacredTimeline.capture", "sacredTimeline.narrate", "sacredTimeline.update",
     "sacredTimeline.backup", "sacredTimeline.changes", "sacredTimeline.timeline",
     "sacredTimeline.experiment", "sacredTimeline.keep", "sacredTimeline.discard",
     "sacredTimeline.restore", "sacredTimeline.start", "sacredTimeline.connect",
     "sacredTimeline.untangle"}

\* The identifier the handler's switch passes to executeCommand, "" where it
\* calls none.
CommandOf(type) ==
    CASE type = "capture"    -> "sacredTimeline.capture"
      [] type = "latest"     -> "sacredTimeline.latest"
      [] type = "backup"     -> "sacredTimeline.backup"
      [] type = "changes"    -> "sacredTimeline.changes"
      [] type = "timeline"   -> "sacredTimeline.timeline"
      [] type = "narrate"    -> "sacredTimeline.narrate"
      [] type = "experiment" -> "sacredTimeline.experiment"
      [] type = "connect"    -> "sacredTimeline.connect"
      [] type = "start"      -> "sacredTimeline.start"
      [] OTHER               -> ""

\* The handler has received no message yet.
NoDispatch == [type |-> "", command |-> "", outcome |-> "none"]

nonSidebarVars == <<repoVars, callVars, prev, cliVars, gitVars, cloudVars, statusVars>>

\* activate(): the sidebar provider and the commands are registered.
activate ==
    /\ registered = {}
    /\ registered' = Commands
    /\ UNCHANGED <<inbox, dispatched, nonSidebarVars>>

\* A button of the webview is clicked: sendMessage(type).
WebviewPosts(type) ==
    /\ registered # {}
    /\ Len(inbox) < MaxInbox
    /\ inbox' = Append(inbox, [type |-> type])
    /\ UNCHANGED <<registered, dispatched, nonSidebarVars>>

\* The handler of onDidReceiveMessage on the oldest message: executeCommand
\* runs a registered command and rejects an identifier that is not registered.
onDidReceiveMessage ==
    /\ inbox # << >>
    /\ inbox' = Tail(inbox)
    /\ dispatched' =
          [type    |-> Head(inbox).type,
           command |-> CommandOf(Head(inbox).type),
           outcome |-> IF Head(inbox).type = "refresh" THEN "updateView"
                       ELSE IF CommandOf(Head(inbox).type) = "" THEN "ignored"
                       ELSE IF CommandOf(Head(inbox).type) \in registered THEN "ran"
                       ELSE "command not found"]
    /\ UNCHANGED <<registered, nonSidebarVars>>

\* The paths status can list and the two status letters of a path ("" where
\* status does not list it): modified, deleted, staged, added, untracked,
\* renamed, in conflict.
StatusPaths == {"a.md", "b.md"}
StatusCodes == {"", " M", " D", "M ", "MM", "D ", "A ", "??", "R ", "UU"}

\* status.files, status.staged, status.modified and status.not_added.
StatusListed == {p \in StatusPaths : statusFiles[p] # ""}
StatusStaged == {p \in StatusPaths : statusFiles[p] \in {"M ", "MM", "D ", "A "}}
StatusModified == {p \in StatusPaths : statusFiles[p] \in {" M", "M ", "MM"}}
StatusNotAdded == {p \in StatusPaths : statusFiles[p] = "??"}

\* changes(): the arrays are the sets of their paths.
changes ==
    IF current = ""             \* status throws: not a repository
    THEN [hasChanges |-> FALSE, staged |-> {}, unstaged |-> {}, untracked |-> {}]
    ELSE [hasChanges |-> \/ StatusStaged # {}
                         \/ (StatusModified \ StatusStaged) # {}
                         \/ StatusNotAdded # {},
          staged     |-> StatusStaged,
          unstaged   |-> StatusModified \ StatusStaged,
          untracked  |-> StatusNotAdded]

\* What the capture command showed last, and whether it made a capture.
EditorResult(shown, captured) == [shown |-> shown, captured |-> captured]
NoEditorOp == EditorResult("", FALSE)

\* A file of the workspace is edited, deleted, staged, added, renamed, left
\* in conflict, or put back as it was.
FileChanged(path, code) ==
    /\ current # ""
    /\ statusFiles[path] # code
    /\ statusFiles' = [statusFiles EXCEPT ![path] = code]
    /\ dirty' = (\E p \in StatusPaths : statusFiles'[p] # "")
    /\ op' = Result("edit", "", TRUE, "")
    /\ editorOp' = NoEditorOp
    /\ UNCHANGED <<graph, branches, current, detachedAt, started, repoVars, callVars,
                   prev, cliVars, cloudVars, sidebarVars>>

\* captureCommand() of the editor: changes(), the input box, capture(message).
captureCommand ==
    /\ \/ /\ ~changes.hasChanges
          /\ editorOp' = EditorResult("Nothing to capture - no changes detected", FALSE)
          /\ UNCHANGED <<statusFiles, gitVars>>
       \/ /\ changes.hasChanges             \* the input box is dismissed
          /\ editorOp' = EditorResult("", FALSE)
          /\ UNCHANGED <<statusFiles, gitVars>>
       \/ /\ changes.hasChanges             \* add or commit throws
          /\ \E message \in CaptureMessages :
                op' = Result("capture", message, FALSE, "Capture failed")
          /\ editorOp' = EditorResult("Capture failed", FALSE)
          /\ UNCHANGED <<statusFiles, gitState>>
       \/ /\ changes.hasChanges             \* add and commit return
          /\ Len(graph) < MaxHashes
          /\ \E message \in CaptureMessages :
                /\ graph' = Append(graph, [reach   |-> Reach(HeadHash) \cup {Len(graph) + 1},
                                           message |-> message])
                /\ op' = [Result("capture", message, TRUE, "Captured")
                             EXCEPT !.hash = Len(graph) + 1]
          /\ IF current = "HEAD"
             THEN detachedAt' = Len(graph) + 1 /\ UNCHANGED branches
             ELSE branches' = [branches EXCEPT ![current] = Len(graph) + 1]
                  /\ UNCHANGED detachedAt
          /\ statusFiles' = [p \in StatusPaths |-> ""]
          /\ dirty' = FALSE
          /\ editorOp' = EditorResult("Captured", TRUE)
          /\ UNCHANGED <<current, started>>
    /\ UNCHANGED <<repoVars, callVars, prev, cliVars, cloudVars, sidebarVars>>

\* getStatusSummary(): isRepo, currentExperiment and hasChanges of what it returns.
getStatusSummary ==
    IF current = ""             \* status throws: not a repository
    THEN [isRepo |-> FALSE, currentExperiment |-> Null, hasChanges |-> FALSE]
    ELSE [isRepo |-> TRUE,
          currentExperiment |-> IF current # MainBranch THEN Some(current) ELSE Null,
          hasChanges |-> dirty]

----------------------------------------------------------------------------
(* Specifications *)


Init ==
    /\ repo = << >>
    /\ today = 1
    /\ pc = "idle"
    /\ days = 0
    /\ logOutcome = "none"
    /\ commits = << >>
    /\ idx = 0
    /\ dayMap = << >>
    /\ fileChanges = << >>
    /\ lookups = << >>
    /\ result = Null
    /\ sinceStr = Null
    /\ invoked = {}
    /\ prev = Null
    /\ cliPc = "shell"
    /\ param = << >>
    /\ cliDays = 0
    /\ graph = << >>
    /\ branches = [b \in BranchUniverse |-> 0]
    /\ current = ""
    /\ detachedAt = 0
    /\ dirty = FALSE
    /\ started = Null
    /\ op = NoOp
    /\ remotes = {}
    /\ worktrees = << >>
    /\ cloudOp = NoCloudOp
    /\ statusFiles = [p \in StatusPaths |-> ""]
    /\ editorOp = NoEditorOp
    /\ registered = {}
    /\ inbox = << >>
    /\ dispatched = NoDispatch

Next ==
    \/ CommitAdded(PlainMessages, FileLists)
    \/ DayPasses
    \/ NarrateEmptyWindow(DaysInputs)
    \/ NarrateListing(DaysInputs)
    \/ NarrateLogFails(DaysInputs)
    \/ LoopDiffReturns
    \/ LoopDiffThrows
    \/ NarrateReturns
    \/ ResultConsumed

Spec == Init /\ [][Next]_vars

\* The same program on a repository that holds a file named like a member of
\* Object.prototype.
NextProto ==
    \/ CommitAdded(PlainMessages, ProtoLists)
    \/ DayPasses
    \/ NarrateEmptyWindow({7})
    \/ NarrateListing({7})
    \/ NarrateLogFails({7})
    \/ LoopDiffReturns
    \/ LoopDiffThrows
    \/ NarrateReturns
    \/ ResultConsumed

SpecProto == Init /\ [][NextProto]_vars

\* The same program on commits whose messages vary, within one day.
NextMilestones ==
    \/ CommitAdded(MilestoneMessages, {PlainDiff})
    \/ NarrateEmptyWindow({7})
    \/ NarrateListing({7})
    \/ NarrateLogFails({7})
    \/ LoopDiffReturns
    \/ LoopDiffThrows
    \/ NarrateReturns
    \/ ResultConsumed

SpecMilestones == Init /\ [][NextMilestones]_vars

\* The same program called again and again, each result kept for comparison
\* with the next.
NextTwice ==
    \/ CommitAdded(PlainMessages, {SmallDiff})
    \/ DayPasses
    \/ NarrateEmptyWindow({5})
    \/ NarrateListing({5})
    \/ NarrateLogFails({5})
    \/ LoopDiffReturns
    \/ LoopDiffThrows
    \/ NarrateReturns
    \/ ResultRemembered

SpecTwice == Init /\ [][NextTwice]_vars

\* The same program on a log call that lists the commits in any order.
NextAnyOrder ==
    \/ CommitAdded(PlainMessages, {PlainDiff})
    \/ DayPasses
    \/ NarrateEmptyWindow({7})
    \/ NarrateListingAnyOrder({7})
    \/ NarrateLogFails({7})
    \/ LoopDiffReturns
    \/ LoopDiffThrows
    \/ NarrateReturns
    \/ ResultConsumed

SpecAnyOrder == Init /\ [][NextAnyOrder]_vars

\* The narrate command, run in a repository without commits.
NextCli ==
    \/ CliParses
    \/ CliNarrates
    \/ CliNarrateFails
    \/ CliReports
    \/ CliExits

SpecCli == Init /\ [][NextCli]_vars

\* The timeline operations on one repository.
NextGit ==
    \/ start
    \/ FilesEdited
    \/ \E message \in CaptureMessages : capture(message)
    \/ \E name \in ExperimentNames : experiment(name)
    \/ keep
    \/ discard
    \/ \E hash \in 1..(Len(graph) + 1) : restore(hash)

SpecGit == Init /\ [][NextGit]_vars

\* The cloud operations on a repository and its worktrees.
NextCloud ==
    \/ WorktreeAdded
    \/ \E i \in 1..Len(worktrees) : WorktreeEdited(i)
    \/ \E i \in 1..Len(worktrees) : WorktreeCaptured(i)
    \/ \E url \in RemoteUrls : connect(url)
    \/ backup
    \/ backupAll

SpecCloud == Init /\ [][NextCloud]_vars

\* The sidebar of the editor extension.
NextSidebar ==
    \/ activate
    \/ \E type \in MessageTypes : WebviewPosts(type)
    \/ onDidReceiveMessage

SpecSidebar == Init /\ [][NextSidebar]_vars

\* The capture command of the editor on a workspace whose files change.
NextEditor ==
    \/ start
    \/ \E path \in StatusPaths, code \in StatusCodes : FileChanged(path, code)
    \/ captureCommand

SpecEditor == Init /\ [][NextEditor]_vars

----------------------------------------------------------------------------
(* Properties of narrate *)

\* narrate has returned and the log call had listed at least one commit.
Narrated1 == pc = "done" /\ logOutcome = "ok" /\ commits # << >>

Stats == result[1].stats

\* The number of listed commits that fall on weekday w.
DayCount(w) == Cardinality({i \in 1..Len(commits) : Weekday(commits[i].date) = w})

\* The number of listed commits whose changed-file lookup returned and listed p.
TrueCount(p) ==
    Cardinality({i \in 1..Len(commits) :
        /\ i <= Len(lookups)
        /\ lookups[i] = "ok"
        /\ \E j \in 1..Len(commits[i].changed) : commits[i].changed[j] = p})

\* C1: when the log call lists no commit, narrate returns success = true, the
\* zero statistics (no captures, no active days, no top files, experiments all
\* zero, busiestDay null) and a summary that contains the value of days, and
\* it makes no changed-file lookup.
C1_EmptyWindow ==
    (pc = "done" /\ logOutcome = "ok" /\ commits = << >>) =>
        /\ result # Null
        /\ result[1].success = TRUE
        /\ Stats.totalCaptures = 0
        /\ Stats.activeDays = 0
        /\ Stats.topFiles = << >>
        /\ Stats.experiments = [started |-> 0, kept |-> 0, discarded |-> 0]
        /\ Stats.busiestDay = Null
        /\ \E i \in 1..Len(result[1].summary) : result[1].summary[i] = ToString(days)
        /\ lookups = << >>

\* An empty window of 4 days on a repository that has commits.
C1_Witness ==
    /\ pc = "done"
    /\ logOutcome = "ok"
    /\ commits = << >>
    /\ repo # << >>
    /\ days = 4
    /\ result[1].success

\* C2: for a listing with commits, busiestDay names a weekday whose number of
\* listed commits is the largest of all weekdays, and busiestDay.captures is
\* that number.
C2_BusiestDayIsMax ==
    (Narrated1 /\ result[1].success) =>
        /\ Stats.busiestDay # Null
        /\ Stats.busiestDay[1].captures = DayCount(Stats.busiestDay[1].day)
        /\ \A k \in 1..Len(WeekdayNames) :
              DayCount(WeekdayNames[k]) <= Stats.busiestDay[1].captures

\* Three Monday commits (on two dates) and one Tuesday commit.
C2_Witness ==
    /\ Narrated1
    /\ DayCount("Monday") = 3
    /\ DayCount("Tuesday") = 1
    /\ \E i, j \in 1..Len(commits) :
          commits[i].date # commits[j].date /\ Weekday(commits[i].date) = "Monday"
          /\ Weekday(commits[j].date) = "Monday"
    /\ Stats.busiestDay = Some([day |-> "Monday", captures |-> 3])


\* The paths listed by the changed-file lookups that returned.
ChangedPaths ==
    UNION {{commits[i].changed[j] : j \in 1..Len(commits[i].changed)} :
              i \in {k \in 1..Len(commits) : k <= Len(lookups) /\ lookups[k] = "ok"}}

\* The paths among them that are neither hidden nor OS metadata.
ShownPaths == {p \in ChangedPaths : ~StartsWith(p, ".") /\ ~Includes(p, ".DS_Store")}

\* The listed commits whose date is d.
OnDate(d) == {i \in 1..Len(commits) : commits[i].date = d}

\* C3: topFiles is the min(5, k) most changed of the k non-excluded changed
\* paths, each with its change count, in non-increasing order of that count;
\* no excluded path takes a place and no omitted path has a larger count than
\* a listed one.
C3_TopFilesRanked ==
    (Narrated1 /\ result[1].success) =>
        LET tf == Stats.topFiles
            listed == {tf[i].path : i \in 1..Len(tf)}
        IN  /\ Len(tf) = Min(5, Cardinality(ShownPaths))
            /\ Cardinality(listed) = Len(tf)
            /\ \A i \in 1..Len(tf) :
                  /\ tf[i].path \in ShownPaths
                  /\ tf[i].changes = Num(TrueCount(tf[i].path))
            /\ \A i, j \in 1..Len(tf) :
                  i < j => TrueCount(tf[i].path) >= TrueCount(tf[j].path)
            /\ \A q \in ShownPaths \ listed : \A p \in listed : TrueCount(q) <= TrueCount(p)

\* C4: no entry of topFiles has a path that starts with '.' or contains
\* '.DS_Store'.
C4_NoHiddenTopFile ==
    (pc = "done" /\ result # Null) =>
        \A i \in 1..Len(Stats.topFiles) :
            /\ ~StartsWith(Stats.topFiles[i].path, ".")
            /\ ~Includes(Stats.topFiles[i].path, ".DS_Store")

\* '.DS_Store' is changed more often than every path topFiles lists, and a
\* path that holds '.DS_Store' behind a directory was changed as well.
C4_Witness ==
    /\ Narrated1
    /\ Len(Stats.topFiles) > 0
    /\ "assets/.DS_Store" \in ChangedPaths
    /\ \A p \in ShownPaths : TrueCount(".DS_Store") > TrueCount(p)

\* C5: activeDays is the number of distinct calendar dates of the listed
\* commits.
C5_ActiveDaysAreDates ==
    (Narrated1 /\ result[1].success) =>
        Stats.activeDays = Cardinality({d \in DateSet : OnDate(d) # {}})

\* Two commits on one date and a third on the same weekday a week later: 2.
C5_Witness ==
    /\ Narrated1
    /\ Len(commits) = 3
    /\ Cardinality(OnDate(1)) = 2
    /\ Cardinality(OnDate(8)) = 1
    /\ Stats.activeDays = 2

\* C6: for every path, the count narrate accumulates is the number of listed
\* commits whose lookup returned and listed that path.
C6_CountIsCommits ==
    Narrated1 =>
        /\ \A p \in ChangedPaths :
              HasOwn(fileChanges, p) /\ Own(fileChanges, p) = Num(TrueCount(p))
        /\ \A k \in 1..Len(fileChanges) : fileChanges[k].key \in ChangedPaths

\* C7: a listing that holds the root commit, whose lookup fails, still
\* returns success; the root commit is in totalCaptures, in its weekday's
\* tally and in activeDays, every commit is processed, and no count comes
\* from the root commit's files.
C7_RootCommitSkipped ==
    (Narrated1 /\ \E r \in 1..Len(commits) : commits[r].root) =>
        LET r == CHOOSE k \in 1..Len(commits) : commits[k].root
        IN  /\ result[1].success
            /\ lookups[r] = "fail"
            /\ Len(lookups) = Len(commits)
            /\ Stats.totalCaptures = Len(commits)
            /\ Own(dayMap, Weekday(commits[r].date)) = Num(DayCount(Weekday(commits[r].date)))
            /\ Stats.activeDays = Cardinality({d \in DateSet : OnDate(d) # {}})
            /\ \A k \in 1..Len(fileChanges) :
                  /\ fileChanges[k].key \in ChangedPaths
                  /\ fileChanges[k].value.type = "number"
                     => fileChanges[k].value.num = TrueCount(fileChanges[k].key)

\* The root commit is the only commit of its date and of its weekday, a later
\* commit's lookup returned, and a file of the root commit has no count.
C7_Witness ==
    /\ Narrated1
    /\ result[1].success
    /\ Len(commits) = 2
    /\ commits[2].root
    /\ commits[2].date = 1
    /\ commits[1].date = 2
    /\ lookups = <<"ok", "fail">>
    /\ Stats.activeDays = 2
    /\ commits[2].changed = BigDiff
    /\ commits[1].changed = SmallDiff
    /\ ~HasOwn(fileChanges, "b.md")
    /\ HasOwn(fileChanges, "f.md")

\* C8: when the log call fails narrate returns success = false, a diagnostic
\* summary and the zero statistics; every return is a result object.
C8_LogFailureReported ==
    /\ pc = "done" => (result # Null /\ result[1].success \in BOOLEAN)
    /\ (pc = "done" /\ logOutcome = "fail") =>
          /\ result[1].success = FALSE
          /\ Len(result[1].summary) = 2
          /\ result[1].summary[1] = "Could not narrate: "
          /\ Stats.totalCaptures = 0
          /\ Stats.activeDays = 0
          /\ Stats.topFiles = << >>
          /\ Stats.experiments = [started |-> 0, kept |-> 0, discarded |-> 0]
          /\ Stats.busiestDay = Null

\* The log call failed on a repository that has commits.
C8_Witness ==
    /\ pc = "done"
    /\ logOutcome = "fail"
    /\ Len(repo) = 2
    /\ result[1].success = FALSE

\* C9: when the changed-file lookup fails for a commit that has a parent,
\* narrate reports success = false with the zero statistics.
C9_OtherFailureReported ==
    (Narrated1 /\ \E k \in 1..Len(commits) : ~commits[k].root /\ lookups[k] = "fail") =>
        /\ result[1].success = FALSE
        /\ Stats = ZeroStats

\* C10: for a listing with commits the summary holds the encouragement
\* sentence exactly when twice the number of active dates is less than days.
C10_EncouragementIffBelowHalf ==
    (Narrated1 /\ result[1].success) =>
        ((\E i \in 1..Len(result[1].summary) : result[1].summary[i] = " You were active on ")
            <=> 2 * Cardinality({d \in DateSet : OnDate(d) # {}}) < days)

\* A window of 7 days with 3 active dates: the sentence is there.
C10_Witness ==
    /\ Narrated1
    /\ days = 7
    /\ Stats.activeDays = 3
    /\ \E i \in 1..Len(result[1].summary) : result[1].summary[i] = " You were active on "

\* Whether s holds the lower-case word kw, letter case of s aside.
HoldsWord(s, kw) ==
    \E i \in 1..(Len(s) - Len(kw) + 1) :
        \A j \in 1..Len(kw) : LowerChar(SubSeq(s, i + j - 1, i + j - 1)) = SubSeq(kw, j, j)

\* The listed commits whose message holds a completion keyword, in listing order.
KeywordCommits ==
    SelectSeq(commits, LAMBDA c : \E kw \in {"finish", "complete", "done"} : HoldsWord(c.message, kw))

\* The pieces of the summary from the milestone sentence on.
MilestoneTail ==
    LET s == result[1].summary
        at == {k \in 1..Len(s) : s[k] = " Recent milestones: \""}
    IN  IF at = {} THEN << >> ELSE SubSeq(s, CHOOSE k \in at : TRUE, Len(s))

\* C11: a commit is a milestone exactly when its message holds 'finish',
\* 'complete' or 'done' in any letter case; the summary quotes the first two
\* such commits of the listing and no more, and has no milestone sentence
\* when there is none.
C11_MilestonesQuoted ==
    (Narrated1 /\ result[1].success) =>
        MilestoneTail =
            IF KeywordCommits = << >> THEN << >>
            ELSE IF Len(KeywordCommits) = 1
            THEN <<" Recent milestones: \"", KeywordCommits[1].message, "\"", ".">>
            ELSE <<" Recent milestones: \"", KeywordCommits[1].message, "\"",
                   " and \"", KeywordCommits[2].message, "\"", ".">>

\* Three milestone commits in three letter cases, behind a commit that is
\* none: the two most recently listed are quoted.
C11_Witness ==
    /\ Narrated1
    /\ Len(commits) = 4
    /\ commits[1].message = "Finnish dinner"
    /\ commits[2].message = "ALL DONE"
    /\ commits[3].message = "incomplete notes"
    /\ commits[4].message = "Finish chapter 3"
    /\ Len(MilestoneTail) = 7
    /\ MilestoneTail[2] = "ALL DONE"
    /\ MilestoneTail[5] = "incomplete notes"

\* The place in the listing of the first commit that falls on weekday w.
FirstSeen(w) ==
    CHOOSE i \in 1..Len(commits) :
        /\ Weekday(commits[i].date) = w
        /\ \A j \in 1..(i - 1) : Weekday(commits[j].date) # w

\* The weekdays with the largest number of listed commits.
TiedDays ==
    {w \in {Weekday(commits[i].date) : i \in 1..Len(commits)} :
        \A k \in 1..Len(WeekdayNames) : DayCount(WeekdayNames[k]) <= DayCount(w)}

\* C20: among the weekdays that share the largest count, busiestDay is the one
\* whose first commit comes earliest in the listing.
C20_FirstSeenWinsTie ==
    (Narrated1 /\ result[1].success) =>
        /\ Stats.busiestDay # Null
        /\ Stats.busiestDay[1].day \in TiedDays
        /\ \A w \in TiedDays : FirstSeen(Stats.busiestDay[1].day) <= FirstSeen(w)

\* Two Tuesday commits listed before two Monday commits: Tuesday.
C20_Witness ==
    /\ Narrated1
    /\ Len(commits) = 4
    /\ DayCount("Monday") = 2
    /\ DayCount("Tuesday") = 2
    /\ Weekday(commits[1].date) = "Tuesday"
    /\ Stats.busiestDay = Some([day |-> "Tuesday", captures |-> 2])

\* The call that has just returned was given what the call before it was given.
SameInputs ==
    /\ pc = "done"
    /\ prev # Null
    /\ prev[1].days = days
    /\ prev[1].today = today
    /\ prev[1].logOutcome = logOutcome
    /\ prev[1].commits = commits
    /\ prev[1].lookups = lookups

\* C12: two narrate calls with the same days, the same current date, the same
\* listed commits in the same order and the same changed-file results return
\* the same summary and the same statistics.
C12_SameInputsSameResult ==
    SameInputs =>
        /\ result[1].summary = prev[1].result.summary
        /\ result[1].stats = prev[1].result.stats
        /\ result[1].success = prev[1].result.success

\* Two calls over the same three commits, one of whose lookups failed.
C12_Witness ==
    /\ SameInputs
    /\ Len(commits) = 3
    /\ lookups = <<"ok", "fail", "fail">>
    /\ result[1].success
    /\ Stats.totalCaptures = 3

\* C13: the date narrate passes to the log call is exactly `days` calendar
\* days before the current local calendar date.
C13_CutoffIsDaysBack ==
    (pc # "idle" /\ sinceStr # Null) => sinceStr[1] = today - days

\* A step of a narrate call: from the call to the return.
NarrateStep == pc # "done" /\ pc' # "idle"

\* C14: a narrate call invokes nothing but log and diff, and no step of it
\* changes the commits, the branches, the current branch or the working tree.
C14_NarrateReadsOnly ==
    [][NarrateStep =>
          /\ invoked' \subseteq {"log", "diff"}
          /\ UNCHANGED <<repo, graph, branches, current, detachedAt, dirty>>]_vars

\* A call that listed commits, looked their files up and returned.
C14_Witness ==
    /\ pc = "done"
    /\ invoked = {"log", "diff"}
    /\ Len(commits) = 3
    /\ result[1].success
    /\ Stats.topFiles # << >>

\* The text with the blanks at both ends removed.
RECURSIVE Trimmed(_)
Trimmed(text) ==
    IF text = << >> THEN text
    ELSE IF Head(text) = " " THEN Trimmed(Tail(text))
    ELSE IF text[Len(text)] = " " THEN Trimmed(SubSeq(text, 1, Len(text) - 1))
    ELSE text

\* The text writes a positive integer: digits only, not all of them zero.
IsPositiveInteger(text) ==
    /\ Trimmed(text) # << >>
    /\ \A i \in 1..Len(Trimmed(text)) : IsDigit(Trimmed(text)[i])
    /\ \E i \in 1..Len(Trimmed(text)) : Trimmed(text)[i] # "0"

\* C15: the narrate command calls narrate with 7 when it has no argument and
\* with the integer the argument writes when that is a positive integer; for
\* any other argument it exits with status 1 and narrate is not called.
C15_CliValidates ==
    /\ (cliPc # "shell" /\ param = << >>) => (cliPc # "exit1" /\ cliDays = 7)
    /\ (cliPc # "shell" /\ param # << >> /\ ~IsPositiveInteger(param)) =>
           (cliPc = "exit1" /\ pc = "idle")
    /\ (cliPc # "shell" /\ IsPositiveInteger(param)) =>
           (cliPc # "exit1" /\ cliDays = DecimalValue(Trimmed(param)))
    /\ (cliPc # "shell" /\ pc # "idle") => (days = cliDays /\ days >= 1)

----------------------------------------------------------------------------
(* Properties of the timeline operations *)

\* An experiment is under way: HEAD is on the branch the last successful
\* experiment() made.
UnderWay == started # Null /\ current = started[1].name

\* After the step, every main-timeline branch that existed when the
\* experiment began has the tip it had then.
TrunkKept ==
    /\ started[1].main # 0 => branches'["main"] = started[1].main
    /\ started[1].master # 0 => branches'["master"] = started[1].master

\* C16: while an experiment is under way, a capture puts its commit on the
\* experiment branch and on no other branch, and main (or master) keeps the
\* head it had when the experiment began; so it does after a successful
\* discard.
C16_MainIsolated ==
    [][/\ (UnderWay /\ op'.name = "capture") =>
              /\ TrunkKept
              /\ op'.success =>
                    /\ branches'[current] = op'.hash
                    /\ \A b \in BranchUniverse \ {current} : branches'[b] = branches[b]
       /\ (UnderWay /\ op'.name = "discard" /\ op'.success) =>
              /\ TrunkKept
              /\ current' \in {"main", "master"}]_vars

\* An experiment with a capture of its own has been discarded: main is where
\* it was and the capture is on no branch.
C16_Witness ==
    /\ op.name = "discard"
    /\ op.success
    /\ started # Null
    /\ started[1].main = 1
    /\ branches["main"] = 1
    /\ current = "main"
    /\ Len(graph) = 2
    /\ graph[2].reach = {1, 2}
    /\ \A b \in BranchUniverse : branches[b] # 2

\* C17: a keep that returns success = true was called on an experiment
\* branch; after it HEAD is on the main branch, every commit of the
\* experiment is reachable from the main branch, and the experiment branch is
\* gone.
C17_KeepMerges ==
    [][(op'.name = "keep" /\ op'.success) =>
          /\ current \notin {"main", "master"}
          /\ Exists(current)
          /\ current' = MainBranch
          /\ current' \in {"main", "master"}
          /\ Reach(branches[current]) \subseteq graph'[branches'[current']].reach
          /\ branches'[current] = 0]_vars

\* The experiment and main had each a capture of its own: a merge commit.
C17_Witness ==
    /\ op.name = "keep"
    /\ op.success
    /\ current = "main"
    /\ branches["try-2"] = 0
    /\ Len(graph) = 4
    /\ graph[4].message = "Merge branch"
    /\ branches["main"] = 4
    /\ graph[4].reach = {1, 2, 3, 4}

\* A capture step in a repository.
CaptureStep == op'.name = "capture" /\ current # ""

\* The capture returned 'Nothing to capture' and left the history alone.
NothingCaptured ==
    /\ ~op'.success
    /\ op'.message = "Nothing to capture"
    /\ UNCHANGED <<graph, branches, current, detachedAt, dirty>>

\* The capture made exactly one commit, with its message, on top of HEAD,
\* left no change behind and returned the commit's hash.
OneCommitMade ==
    /\ op'.success
    /\ Len(graph') = Len(graph) + 1
    /\ SubSeq(graph', 1, Len(graph)) = graph
    /\ graph'[Len(graph')].message = op'.arg
    /\ graph'[Len(graph')].reach = Reach(HeadHash) \cup {Len(graph')}
    /\ op'.hash = Len(graph')
    /\ ~dirty'

\* The capture returned 'Capture failed' and made no commit.
CaptureThrew ==
    /\ ~op'.success
    /\ op'.message = "Capture failed"
    /\ UNCHANGED <<graph, branches, current, detachedAt>>

\* C18: with no changed file capture returns success = false, 'Nothing to
\* capture', and the history is unchanged; with a changed file it makes
\* exactly one commit with the message and returns success = true with the
\* commit's hash.
C18_CaptureCommits ==
    [][CaptureStep => IF ~dirty THEN NothingCaptured ELSE OneCommitMade]_vars

\* C18, amended: with a changed file capture makes exactly one commit and
\* returns success = true, unless add or commit throws: then it returns
\* success = false, 'Capture failed', and makes no commit.
C18_CaptureCommitsUnlessThrows ==
    [][CaptureStep =>
          IF ~dirty THEN NothingCaptured ELSE (OneCommitMade \/ CaptureThrew)]_vars

\* A capture on the experiment branch has made the second commit.
C18_Witness ==
    /\ op.name = "capture"
    /\ op.success
    /\ op.hash = 2
    /\ op.arg = "Finish chapter 3"
    /\ graph[2].message = "Finish chapter 3"
    /\ graph[2].reach = {1, 2}
    /\ current = "try-2"
    /\ branches["try-2"] = 2
    /\ ~dirty

\* C19: a restore called while status lists a changed file returns
\* success = false and leaves HEAD, the branches and the working tree as
\* they are.
C19_RestoreRefusesDirty ==
    [][(op'.name = "restore" /\ dirty) =>
          /\ ~op'.success
          /\ UNCHANGED <<graph, branches, current, detachedAt, dirty>>]_vars

\* A restore was refused on an experiment branch with unsaved changes.
C19_Witness ==
    /\ op.name = "restore"
    /\ ~op.success
    /\ op.message = "You have unsaved changes"
    /\ dirty
    /\ current = "try-2"
    /\ Len(graph) = 2

----------------------------------------------------------------------------
(* Further properties of narrate *)

\* The places of the summary at which the piece `opening` stands.
PlacesOf(opening) ==
    {k \in 1..Len(result[1].summary) : result[1].summary[k] = opening}

\* The pieces that open the five sentences, in the order of the code.
Openings ==
    <<"In the last ", " Your most productive day was ", " You worked most on \"",
      " You were active on ", " Recent milestones: \"">>

\* C21: for a listing with commits the summary starts with the base sentence
\* ('capture' exactly when there is one commit); the busiest-day sentence is
\* there iff busiestDay.captures > 1; the top-file sentence is there iff
\* topFiles is not empty, and it names topFiles[0]; each sentence stands at
\* most once and none stands before a sentence that precedes it in the order
\* base, busiest day, top file, encouragement, milestones.
C21_SentencesInOrder ==
    (Narrated1 /\ result[1].success) =>
        LET s == result[1].summary
        IN  /\ PlacesOf(Openings[1]) = {1}
            /\ SubSeq(s, 1, 6) =
                  <<"In the last ", ToString(days), " days, you made ",
                    ToString(Len(commits)),
                    IF Len(commits) = 1 THEN " capture" ELSE " captures", ".">>
            /\ (PlacesOf(Openings[2]) # {}) <=> (Stats.busiestDay[1].captures > 1)
            /\ \A k \in PlacesOf(Openings[2]) :
                  /\ s[k + 1] = Stats.busiestDay[1].day
                  /\ s[k + 3] = ToString(Stats.busiestDay[1].captures)
            /\ (PlacesOf(Openings[3]) # {}) <=> (Stats.topFiles # << >>)
            /\ \A k \in PlacesOf(Openings[3]) : s[k + 1] = Stats.topFiles[1].file
            /\ \A i \in 1..Len(Openings) : Cardinality(PlacesOf(Openings[i])) <= 1
            /\ \A i, j \in 1..Len(Openings) :
                  i < j => \A a \in PlacesOf(Openings[i]), b \in PlacesOf(Openings[j]) : a < b

\* A summary that holds all five sentences.
C21_Witness ==
    /\ Narrated1
    /\ result[1].success
    /\ Len(commits) = 3
    /\ \A i \in 1..Len(Openings) : PlacesOf(Openings[i]) # {}
    /\ Stats.topFiles[1].file = "b.md"

\* The place in the listing of the commit that git's own order (most recent
\* first) lists k-th.
LogPlace(k) ==
    CHOOSE i \in 1..Len(commits) :
        Cardinality({j \in 1..Len(commits) : commits[j].hash > commits[i].hash}) = k - 1

\* The listed commits, and the outcome of each one's lookup, in git's order.
InLogOrder == [k \in 1..Len(commits) |-> commits[LogPlace(k)]]
LookupsInLogOrder == [k \in 1..Len(commits) |-> lookups[LogPlace(k)]]

\* The weekday tally and the path counts the loop builds over a listing.
RECURSIVE TallyOf(_)
TallyOf(cs) ==
    IF cs = << >> THEN NewDayMap
    ELSE Bump(TallyOf(SubSeq(cs, 1, Len(cs) - 1)), Weekday(cs[Len(cs)].date))

RECURSIVE CountsOf(_, _)
CountsOf(cs, ls) ==
    IF cs = << >> THEN NewFileChanges
    ELSE LET before == CountsOf(SubSeq(cs, 1, Len(cs) - 1), SubSeq(ls, 1, Len(cs) - 1))
         IN  IF ls[Len(cs)] = "ok" THEN BumpAll(before, cs[Len(cs)].changed) ELSE before

\* An object as the set of its entries.
Entries(obj) == {obj[k] : k \in 1..Len(obj)}

\* C22: whatever the order in which the commits are listed, totalCaptures,
\* activeDays, busiestDay.captures and the count of every path are the ones
\* the same commits (each with the same lookup outcome) give in git's order.
C22_AggregatesIgnoreOrder ==
    (Narrated1 /\ result[1].success) =>
        /\ Stats.totalCaptures = Len(InLogOrder)
        /\ Stats.activeDays = Cardinality(UniqueDates(InLogOrder))
        /\ Stats.busiestDay[1].captures =
              FindBusiest(TallyOf(InLogOrder), Null)[1].captures
        /\ Entries(fileChanges) = Entries(CountsOf(InLogOrder, LookupsInLogOrder))
        /\ Entries(dayMap) = Entries(TallyOf(InLogOrder))

\* A listing out of git's order whose tied busiest weekday is another than
\* the one git's order gives.
C22_Witness ==
    /\ Narrated1
    /\ result[1].success
    /\ Len(commits) = 4
    /\ commits # InLogOrder
    /\ Stats.activeDays = 3
    /\ Stats.busiestDay[1].captures = 2
    /\ Stats.busiestDay[1].day # FindBusiest(TallyOf(InLogOrder), Null)[1].day
    /\ Stats.topFiles # << >>
    /\ commits[1].date = 2
    /\ commits[2].date = 8

\* C23: a successful result for a listing with commits has totalCaptures equal
\* to the number of listed commits, a busiestDay with 1 <= captures <=
\* totalCaptures, 1 <= activeDays <= totalCaptures, at most 5 topFiles each
\* with a number of changes between 1 and totalCaptures, and experiments all
\* zero; busiestDay is null only when totalCaptures is 0.
C23_StatsInRange ==
    /\ (Narrated1 /\ result[1].success) =>
          /\ Stats.totalCaptures = Len(commits)
          /\ Stats.busiestDay # Null
          /\ Stats.busiestDay[1].captures \in 1..Stats.totalCaptures
          /\ Stats.activeDays \in 1..Stats.totalCaptures
          /\ Len(Stats.topFiles) <= 5
          /\ \A i \in 1..Len(Stats.topFiles) :
                /\ Stats.topFiles[i].changes.type = "number"
                /\ Stats.topFiles[i].changes.num \in 1..Stats.totalCaptures
          /\ Stats.experiments = [started |-> 0, kept |-> 0, discarded |-> 0]
    /\ (pc = "done" /\ result[1].success /\ Stats.busiestDay = Null) =>
          Stats.totalCaptures = 0

----------------------------------------------------------------------------
(* Further properties of the timeline operations *)

\* C24: keep and discard called while HEAD is on 'main' or 'master' return
\* success = false and change neither the branches nor their tips nor the
\* current branch.
C24_RefusedOnMain ==
    [][(op'.name \in {"keep", "discard"} /\ current \in {"main", "master"}) =>
          /\ ~op'.success
          /\ op'.message \in {"Already on the main timeline", "On the main timeline"}
          /\ UNCHANGED <<graph, branches, current, detachedAt, dirty>>]_vars

\* A discard refused on master while an experiment branch with a capture of
\* its own exists.
C24_Witness ==
    /\ op.name = "discard"
    /\ ~op.success
    /\ op.message = "On the main timeline"
    /\ current = "master"
    /\ branches["master"] = 1
    /\ branches["try-2"] = 2

----------------------------------------------------------------------------
(* Properties of the cloud operations *)

\* The operation that returned r had called push.
PushCalled(r) == \E k \in 1..Len(r.calls) : r.calls[k] = "push"

\* C26: backup() calls push only with a remote configured and the branch
\* ahead of its upstream by at least one commit; without a remote it returns
\* success = false and calls no push, with ahead = 0 it returns success = true
\* and pushed = false and calls no push, and pushed = true is returned only
\* when push was called and returned (the commits are then on the remote).
C26_BackupPushesOnlyAhead ==
    [][cloudOp'.name = "backup" =>
        /\ PushCalled(cloudOp') =>
              (worktrees # << >> /\ remotes # {} /\ worktrees[1].ahead >= 1)
        /\ remotes = {} =>
              (~cloudOp'.success /\ ~PushCalled(cloudOp') /\ worktrees' = worktrees)
        /\ (remotes # {} /\ worktrees[1].ahead = 0) =>
              /\ cloudOp'.success
              /\ cloudOp'.pushed = "false"
              /\ ~PushCalled(cloudOp')
              /\ worktrees' = worktrees
        /\ cloudOp'.pushed = "true" =>
              (PushCalled(cloudOp') /\ cloudOp'.success /\ worktrees'[1].ahead = 0)
    ]_vars

\* backup() has pushed the captures of the workspace while another worktree
\* is still ahead of its upstream.
C26_Witness ==
    /\ cloudOp.name = "backup"
    /\ cloudOp.pushed = "true"
    /\ \E i \in 2..Len(worktrees) : worktrees[i].ahead > 0

\* Call a is made before call b among the calls of entry r, and both are made.
CalledBefore(r, a, b) ==
    \E i, j \in 1..Len(r.calls) : i < j /\ r.calls[i] = a /\ r.calls[j] = b

\* backupAll() has listed the worktrees and run its loop over them.
LoopRan(r) == r.name = "backupAll" /\ r.calls = <<"getRemotes", "worktree list">>

\* C27: backupAll() with a remote and the n >= 1 worktrees of getWorktrees()'s
\* listing returns one entry per listed worktree, in the listing's order; every
\* listed worktree is processed whatever happened to the ones before it, an
\* entry with success = true leaves its worktree clean and not ahead, and one
\* with success = false leaves it unpushed; the overall success is true
\* exactly when every entry succeeded; a worktree with pending changes has
\* them committed before push is called for it.
C27_BackupAllIsolatesFailures ==
    [][LoopRan(cloudOp') => \A listed \in {getWorktrees(Porcelain)} :
        /\ remotes # {}
        /\ Len(listed) >= 1
        /\ Len(cloudOp'.results) = Len(listed)
        /\ \A k \in 1..Len(listed) :
              LET wt == listed[k]
                  entry == cloudOp'.results[k]
              IN  /\ entry.name = wt.name
                  /\ entry.branch = wt.branch
                  /\ entry.calls # << >>
                  /\ entry.success =>
                        /\ ~worktrees'[At(wt.path)].dirty
                        /\ worktrees'[At(wt.path)].ahead = 0
                  /\ ~entry.success =>
                        worktrees'[At(wt.path)].ahead >= worktrees[At(wt.path)].ahead
                  /\ (worktrees[At(wt.path)].dirty /\ PushCalled(entry)) =>
                        CalledBefore(entry, "commit", "push")
        /\ cloudOp'.success <=>
              \A k \in 1..Len(cloudOp'.results) : cloudOp'.results[k].success
    ]_vars

\* backupAll() has returned two entries: the first worktree failed, the second
\* had pending changes, was committed and then pushed.
C27_Witness ==
    /\ LoopRan(cloudOp)
    /\ Len(cloudOp.results) = 2
    /\ ~cloudOp.results[1].success
    /\ cloudOp.results[2].success
    /\ CalledBefore(cloudOp.results[2], "commit", "push")

----------------------------------------------------------------------------
(* Properties of the editor extension *)

\* The message types of the sidebar's action buttons.
ActionTypes ==
    {"capture", "latest", "backup", "changes", "timeline", "narrate", "experiment",
     "connect", "start"}

\* C28: every action message the sidebar receives (capture, latest, backup,
\* changes, timeline, narrate, experiment, connect, start) is passed to
\* executeCommand with an identifier that activate() has registered, and the
\* command runs.
C28_SidebarCommandsRegistered ==
    dispatched.type \in ActionTypes =>
        (dispatched.command \in registered /\ dispatched.outcome = "ran")

----------------------------------------------------------------------------
(* Properties of the status summary *)

\* C29: in every state of a repository, getStatusSummary() reports
\* currentExperiment = null exactly when keep() and discard() called in that
\* state refuse with their 'on the main timeline' result.
C29_SummaryAgreesWithKeep ==
    [][(op'.name \in {"keep", "discard"} /\ current # "") =>
        ((getStatusSummary.currentExperiment = Null) <=>
            (op'.message \in {"Already on the main timeline", "On the main timeline"}))
    ]_vars

\* C30: in every state of a repository, changes().hasChanges equals
\* getStatusSummary().hasChanges, that is, status.files is not empty; the
\* capture command therefore shows 'Nothing to capture' only where capture()
\* would find nothing to commit.
C30_ChangesAgreeWithStatus ==
    current # "" =>
        /\ changes.hasChanges = getStatusSummary.hasChanges
        /\ getStatusSummary.hasChanges = (StatusListed # {})

====
